---- MODULE Spec2Model ----
(***************************************************************************)
(* Verification model of the ml-scada-prototype services.                  *)
(*                                                                         *)
(* Part 1: automl-service (src/services/automl-service/main.py): the      *)
(* feature encoder process_data, the history query of                      *)
(* fetch_latest_data_for_prediction, startup (main) and prediction_loop.   *)
(*                                                                         *)
(* Time is counted in seconds since 2024-01-01T00:00:00 UTC (a Monday).    *)
(* A data frame is a record [isNone, columns, rows]: columns is the        *)
(* ordered column list and every row is a function from column name to     *)
(* cell value.  Python's None is the frame NoneFrame.                      *)
(* Rates of change are exact fractions <<numerator, denominator>>.         *)
(***************************************************************************)
EXTENDS Integers, Sequences, FiniteSets, TLC

\* ------------------------------------------------------------------ bounds
\* Number of entries of SENSORS_TO_PREDICT the model keeps (the code has 17).
NumSensors == 2
\* Readings written to sensor_data while the service runs.
MaxInserts == 1
\* Rows of a frame handed to process_data on its own.
MaxFrameRows == 2
\* No cycle starts later than Now0 + MaxRun seconds.
MaxRun == 45
\* Longest time the work of one cycle may take, in ticks of TickSeconds.
MaxWorkTicks == 3
\* Granularity of the clock.
TickSeconds == 15
\* Largest power of ten among the values handed to convert_value: 10^MaxExp.
MaxExp == 4

\* ------------------------------------------------------- program constants
PREDICTION_INTERVAL_SECONDS == 30
\* INTERVAL '5 minutes' of the history query, in seconds.
LookbackSeconds == 300
MQTT_PREDICTION_TOPIC_PREFIX == "ai_scada/predictions"

AllSensors ==
  << "pressure-1", "temp-1", "flow-1", "pressure-2", "flow-2", "vibration-1",
     "pressure-3", "flow-3", "temp-2", "oil-production", "gas-production",
     "water-cut", "valve-inlet", "valve-gas", "valve-water", "valve-oil",
     "temp-3" >>

SENSORS_TO_PREDICT == SubSeq(AllSensors, 1, NumSensors)

\* A sensor that reports to the historian but is not in SENSORS_TO_PREDICT.
RogueSensor == "rogue-1"

\* ----------------------------------------------------------------- helpers
Range(s) == { s[i] : i \in 1..Len(s) }

Max(a, b) == IF a >= b THEN a ELSE b

Abs(a) == IF a < 0 THEN -a ELSE a

RECURSIVE Gcd(_, _)
Gcd(a, b) == IF b = 0 THEN a ELSE Gcd(b, a % b)

\* The quotient n / d of two floats, kept exact.
Frac(n, d) ==
  LET g == Gcd(Abs(n), Abs(d))
      sgn == IF d < 0 THEN -1 ELSE 1
  IN  << sgn * (n \div g), sgn * (d \div g) >>

\* The number 0 in a rate column.
ZeroRate == << 0, 1 >>

Vocabulary == Range(SENSORS_TO_PREDICT)

DbSensors == Vocabulary \cup {RogueSensor}

\* The sensors the historian may hold, in the lexicographic order pandas
\* uses for the categories of get_dummies.
LexOrder ==
  << "flow-1", "flow-2", "flow-3", "gas-production", "oil-production",
     "pressure-1", "pressure-2", "pressure-3", "rogue-1", "temp-1", "temp-2",
     "temp-3", "valve-gas", "valve-inlet", "valve-oil", "valve-water",
     "vibration-1", "water-cut" >>

SensorColumn(sensor) == "sensor_id_" \o sensor

\* ------------------------------------------------------------------ frames
NoneFrame == [isNone |-> TRUE, columns |-> << >>, rows |-> << >>]

Frame(cols, rws) == [isNone |-> FALSE, columns |-> cols, rows |-> rws]

HasColumn(df, c) == c \in Range(df.columns)

\* processed[c] = cells (one cell per row): a new column is appended, an
\* existing one overwritten.
SetColumn(df, c, cells) ==
  Frame(IF HasColumn(df, c) THEN df.columns ELSE Append(df.columns, c),
        [i \in 1..Len(df.rows) |->
           [k \in DOMAIN df.rows[i] \cup {c} |->
              IF k = c THEN cells[i] ELSE df.rows[i][k]]])

\* processed.drop(c, axis=1)
DropColumn(df, c) ==
  Frame(SelectSeq(df.columns, LAMBDA k : k # c),
        [i \in 1..Len(df.rows) |->
           [k \in DOMAIN df.rows[i] \ {c} |-> df.rows[i][k]]])

\* processed[cols]
SelectColumns(df, cols) ==
  Frame(cols,
        [i \in 1..Len(df.rows) |-> [k \in Range(cols) |-> df.rows[i][k]]])

\* --------------------------------------------------------- calendar fields
CalYear(t) == 2024
CalMonth(t) == 1
CalDay(t) == 1 + (t \div 86400)
CalHour(t) == (t \div 3600) % 24
CalMinute(t) == (t \div 60) % 60
CalSecond(t) == t % 60
CalDayOfWeek(t) == (t \div 86400) % 7

\* ------------------------------------------------------------ process_data
historical_features ==
  << "prev_value_1", "prev_value_2", "prev_value_3",
     "rate_of_change_1", "rate_of_change_2" >>

RateColumns == {"rate_of_change_1", "rate_of_change_2"}

base_features ==
  << "year", "month", "day", "hour", "minute", "second", "dayofweek",
     "prev_value_1", "prev_value_2", "prev_value_3",
     "rate_of_change_1", "rate_of_change_2" >>

all_sensor_columns == [i \in 1..Len(SENSORS_TO_PREDICT) |-> SensorColumn(SENSORS_TO_PREDICT[i])]

\* pd.get_dummies(processed['sensor_id'], prefix='sensor_id'): one indicator
\* column per sensor id that occurs in the frame, categories sorted.
DummyColumns(df) ==
  LET present == { df.rows[i]["sensor_id"] : i \in 1..Len(df.rows) }
      cats == SelectSeq(LexOrder, LAMBDA s : s \in present)
  IN  [i \in 1..Len(cats) |-> SensorColumn(cats[i])]

\* AddColumns as it would be if the indicators were not aligned row by row
\* (every row gets the indicators of the frame's first row).
RECURSIVE AddColumns_FirstRow(_, _, _)
AddColumns_FirstRow(df, cols, n) ==
  IF n = 0 THEN df
  ELSE LET c == cols[n]
           prev == AddColumns_FirstRow(df, cols, n - 1)
       IN  SetColumn(prev, c, [i \in 1..Len(df.rows) |->
                                 IF c = SensorColumn(df.rows[1]["sensor_id"]) THEN 1 ELSE 0])

RECURSIVE AddColumns(_, _, _)
AddColumns(df, cols, n) ==
  IF n = 0 THEN df
  ELSE LET c == cols[n]
           prev == AddColumns(df, cols, n - 1)
       IN  SetColumn(prev, c, [i \in 1..Len(df.rows) |->
                                 IF c = SensorColumn(df.rows[i]["sensor_id"]) THEN 1 ELSE 0])

\* Lines 138-159: dummies for the sensors present, a 0 column for every
\* vocabulary sensor that got none, concatenated; sensor_id dropped.
OneHotEncode(df) ==
  LET dummies == DummyColumns(df)
      missing == SelectSeq(all_sensor_columns, LAMBDA c : c \notin Range(dummies))
      withDummies == AddColumns(df, dummies, Len(dummies))
      withAll == AddColumns(withDummies, missing, Len(missing))
  IN  DropColumn(withAll, "sensor_id")

RECURSIVE FillHistorical(_, _)
FillHistorical(df, n) ==
  IF n = 0 THEN df
  ELSE LET f == historical_features[n]
           prev == FillHistorical(df, n - 1)
       IN  IF HasColumn(prev, f) THEN prev
           ELSE SetColumn(prev, f, [i \in 1..Len(df.rows) |->
                                      IF f \in RateColumns THEN ZeroRate ELSE 0])

\* required_features as it would be if the indicator columns were taken in
\* the order the frame holds them (dummies of the sensors present first).
required_features_FrameOrder(df) ==
  (IF HasColumn(df, "value") THEN << "value" >> ELSE << >>)
    \o base_features
    \o SelectSeq(df.columns, LAMBDA c : c \in Range(all_sensor_columns))

required_features(df) ==
  (IF HasColumn(df, "value") THEN << "value" >> ELSE << >>)
    \o base_features \o all_sensor_columns

\* process_data(df).  dummies_ok = FALSE is the run in which the one-hot
\* block (lines 140-159) raises and the function returns None.
ProcessData(df, dummies_ok) ==
  IF df.isNone \/ Len(df.rows) = 0 THEN NoneFrame
  ELSE
    LET stamps == 1..Len(df.rows)
        t1 == SetColumn(df, "year", [i \in stamps |-> CalYear(df.rows[i]["timestamp"])])
        t2 == SetColumn(t1, "month", [i \in stamps |-> CalMonth(df.rows[i]["timestamp"])])
        t3 == SetColumn(t2, "day", [i \in stamps |-> CalDay(df.rows[i]["timestamp"])])
        t4 == SetColumn(t3, "hour", [i \in stamps |-> CalHour(df.rows[i]["timestamp"])])
        t5 == SetColumn(t4, "minute", [i \in stamps |-> CalMinute(df.rows[i]["timestamp"])])
        t6 == SetColumn(t5, "second", [i \in stamps |-> CalSecond(df.rows[i]["timestamp"])])
        t7 == SetColumn(t6, "dayofweek", [i \in stamps |-> CalDayOfWeek(df.rows[i]["timestamp"])])
    IN  IF HasColumn(t7, "sensor_id") /\ ~dummies_ok THEN NoneFrame
        ELSE
          LET enc == IF HasColumn(t7, "sensor_id") THEN OneHotEncode(t7) ELSE t7
              noTs == IF HasColumn(enc, "timestamp") THEN DropColumn(enc, "timestamp") ELSE enc
              hist == FillHistorical(noTs, Len(historical_features))
              req == required_features(hist)
              missing_features == SelectSeq(req, LAMBDA f : ~HasColumn(hist, f))
          IN  IF Len(missing_features) > 0 THEN NoneFrame
              ELSE SelectColumns(hist, req)

\* ---------------------------------------------------------------- historian
\* sensor_data: per sensor the stored readings [timestamp, value] in the
\* order they were written (timestamps never decrease along a sequence).
Reading(t, v) == [timestamp |-> t, value |-> v]

\* WHERE sensor_id = ANY(sensors) AND timestamp >= NOW() - INTERVAL '5 minutes'
WindowIdx(h, clock) ==
  { i \in 1..Len(h) : h[i].timestamp >= clock - LookbackSeconds }

\* The orders ORDER BY timestamp may give the rows of one partition: every
\* arrangement with non-decreasing timestamps (rows with equal timestamps
\* come in an order the database chooses).
RECURSIVE TimeOrders(_, _)
TimeOrders(h, idx) ==
  IF idx = {} THEN { <<>> }
  ELSE UNION { { <<i>> \o p : p \in TimeOrders(h, idx \ {i}) } :
                 i \in { j \in idx :
                          \A k \in idx : h[j].timestamp <= h[k].timestamp } }

\* One row of the outer SELECT: the k-th row of the partition in order p,
\* with its LAG values, time differences and rates of change.
RankedRow(sensor, h, p, k) ==
  LET cur == h[p[k]]
      l1 == h[p[k - 1]]
      l2 == h[p[k - 2]]
      l3 == h[p[k - 3]]
      time_diff_1 == cur.timestamp - l1.timestamp
      time_diff_2 == cur.timestamp - l2.timestamp
      time_diff_3 == cur.timestamp - l3.timestamp
  IN  [ sensor_id |-> sensor,
        timestamp |-> cur.timestamp,
        value |-> cur.value,
        prev_value_1 |-> l1.value,
        prev_value_2 |-> l2.value,
        prev_value_3 |-> l3.value,
        time_diff_1 |-> time_diff_1,
        time_diff_2 |-> time_diff_2,
        time_diff_3 |-> time_diff_3,
        rate_of_change_1 |->
          IF time_diff_1 > 0 THEN Frac(cur.value - l1.value, time_diff_1) ELSE ZeroRate,
        rate_of_change_2 |->
          IF time_diff_2 > 0 THEN Frac(cur.value - l2.value, time_diff_2) ELSE ZeroRate ]

\* LatestRows as it would be if sensor_df.iloc[0] could be any row that has
\* three predecessors in the window, not the most recent one.
LatestRows_AnySurvivor(sensor, h, clock) ==
  LET idx == WindowIdx(h, clock)
      n == Cardinality(idx)
  IN  UNION { { RankedRow(sensor, h, p, k) : k \in 4..n } :
                p \in TimeOrders(h, idx) }

\* The rows sensor_df.iloc[0] may be: WHERE prev_value_3 IS NOT NULL keeps
\* the rows with three predecessors in the window (k >= 4), and the first
\* row in ORDER BY timestamp DESC is one with the greatest timestamp (it has
\* rn <= 3 in some numbering the database may choose).
LatestRows(sensor, h, clock) ==
  LET idx == WindowIdx(h, clock)
      n == Cardinality(idx)
  IN  UNION { { RankedRow(sensor, h, p, k) :
                  k \in { j \in 4..n : h[p[j]].timestamp = h[p[n]].timestamp } } :
                p \in TimeOrders(h, idx) }

\* prediction_row of lines 312-320, built from the most recent ranked row.
PredictionRow(row) ==
  [ sensor_id |-> row.sensor_id,
    timestamp |-> row.timestamp,
    prev_value_1 |-> row.value,
    prev_value_2 |-> row.prev_value_1,
    prev_value_3 |-> row.prev_value_2,
    rate_of_change_1 |-> row.rate_of_change_1,
    rate_of_change_2 |-> row.rate_of_change_2 ]

prediction_columns ==
  << "sensor_id", "timestamp", "prev_value_1", "prev_value_2", "prev_value_3",
     "rate_of_change_1", "rate_of_change_2" >>

\* The sensors of the list that have a row in the query result, in list order.
SensorsWithRows(table, sensors, clock) ==
  SelectSeq(sensors, LAMBDA s : LatestRows(s, table[s], clock) # {})

\* FetchLatest as it would be if one sensor without a ranked row failed the
\* whole fetch.
FetchLatest_AllOrNothing(table, sensors, clock) ==
  LET have == SensorsWithRows(table, sensors, clock)
      rowsOf(s) == LatestRows(s, table[s], clock)
      picks == { pick \in [Range(have) -> UNION { rowsOf(s) : s \in Range(have) }] :
                   \A s \in Range(have) : pick[s] \in rowsOf(s) }
  IN  IF Len(have) < Len(sensors) THEN {NoneFrame}
      ELSE { Frame(prediction_columns,
                   [i \in 1..Len(have) |-> PredictionRow(pick[have[i]])]) :
               pick \in picks }

\* fetch_latest_data_for_prediction(sensors) without a database error: the
\* frames it may return.  One row per sensor that has a ranked row, in the
\* order of the sensors list; None when no sensor has one.
FetchLatest(table, sensors, clock) ==
  LET have == SensorsWithRows(table, sensors, clock)
      rowsOf(s) == LatestRows(s, table[s], clock)
      picks == { pick \in [Range(have) -> UNION { rowsOf(s) : s \in Range(have) }] :
                   \A s \in Range(have) : pick[s] \in rowsOf(s) }
  IN  IF Len(have) = 0 THEN {NoneFrame}
      ELSE { Frame(prediction_columns,
                   [i \in 1..Len(have) |-> PredictionRow(pick[have[i]])]) :
               pick \in picks }

\* fetch_training_data() without a database error: every stored reading of
\* the target sensors, ORDER BY timestamp DESC.  Readings with equal
\* timestamps are listed in the order of the sensor list (the database may
\* choose another; nothing downstream reads the row order).
RECURSIVE TrainingRows(_, _, _)
TrainingRows(table, sensors, stamps) ==
  IF stamps = {} THEN << >>
  ELSE LET t == CHOOSE u \in stamps : \A w \in stamps : u >= w
           at(s) == SelectSeq(table[s], LAMBDA r : r.timestamp = t)
           rowsAt(s) == [i \in 1..Len(at(s)) |->
                           [sensor_id |-> s, timestamp |-> t, value |-> at(s)[i].value]]
           RECURSIVE Cat(_)
           Cat(n) == IF n = 0 THEN << >> ELSE Cat(n - 1) \o rowsAt(sensors[n])
       IN  Cat(Len(sensors)) \o TrainingRows(table, sensors, stamps \ {t})

training_columns == << "sensor_id", "timestamp", "value" >>

\* FetchTrainingData as it would be without the WHERE sensor_id IN clause.
FetchTrainingData_AllSensors(table, sensors) ==
  Frame(training_columns,
        TrainingRows(table, sensors \o << RogueSensor >>,
                     UNION { { table[s][i].timestamp : i \in 1..Len(table[s]) } : s \in DbSensors }))

FetchTrainingData(table, sensors) ==
  Frame(training_columns,
        TrainingRows(table, sensors,
                     UNION { { table[s][i].timestamp : i \in 1..Len(table[s]) } : s \in Range(sensors) }))

\* ---------------------------------------------------------------- estimator
\* The estimator is opaque; the model lets a trained or loaded model answer
\* each feature row with a number determined by the row alone: the row's
\* prev_value_1 plus 1000 times the position of the sensor whose indicator is set.
RECURSIVE IndicatorSum(_, _)
IndicatorSum(row, n) ==
  IF n = 0 THEN 0
  ELSE n * row[all_sensor_columns[n]] + IndicatorSum(row, n - 1)

Estimate(row) == row["prev_value_1"] + 1000 * IndicatorSum(row, Len(all_sensor_columns))

\* ModelPredict as it would be if the predictions came back in reverse row
\* order.
ModelPredict_Reversed(df) ==
  [i \in 1..Len(df.rows) |-> Estimate(df.rows[Len(df.rows) + 1 - i])]

\* model.predict(data_hf): one number per row, in row order.
ModelPredict(df) == [i \in 1..Len(df.rows) |-> Estimate(df.rows[i])]

\* ---------------------------------------------------------- exact numbers
\* The conversion functions compute with floats.  The model computes with
\* exact rationals: a natural number is its sequence of base-10000 digits,
\* least significant first, without leading zeros (zero is << >>), and a
\* rational is a sign, a numerator and a denominator.  A float result differs
\* from the exact one by a relative error near 10^-16.
RECURSIVE Big(_)
Big(n) == IF n = 0 THEN << >> ELSE << n % 10000 >> \o Big(n \div 10000)

RECURSIVE Trim(_)
Trim(a) ==
  IF a # << >> /\ a[Len(a)] = 0 THEN Trim(SubSeq(a, 1, Len(a) - 1)) ELSE a

RECURSIVE BigAddCarry(_, _, _)
BigAddCarry(a, b, c) ==
  IF a = << >> /\ b = << >> THEN Big(c)
  ELSE LET x == IF a = << >> THEN 0 ELSE a[1]
           y == IF b = << >> THEN 0 ELSE b[1]
           t == x + y + c
       IN  << t % 10000 >> \o
           BigAddCarry(IF a = << >> THEN a ELSE Tail(a),
                       IF b = << >> THEN b ELSE Tail(b), t \div 10000)

BigAdd(a, b) == Trim(BigAddCarry(a, b, 0))

RECURSIVE BigSubBorrow(_, _, _)
BigSubBorrow(a, b, c) ==
  IF a = << >> THEN << >>
  ELSE LET y == IF b = << >> THEN 0 ELSE b[1]
           t == a[1] - y - c
       IN  << IF t < 0 THEN t + 10000 ELSE t >> \o
           BigSubBorrow(Tail(a), IF b = << >> THEN b ELSE Tail(b),
                        IF t < 0 THEN 1 ELSE 0)

\* a - b for a >= b.
BigSub(a, b) == Trim(BigSubBorrow(a, b, 0))

RECURSIVE BigMulDigit(_, _, _)
BigMulDigit(a, k, c) ==
  IF a = << >> THEN Big(c)
  ELSE LET t == a[1] * k + c
       IN  << t % 10000 >> \o BigMulDigit(Tail(a), k, t \div 10000)

RECURSIVE BigMul(_, _)
BigMul(a, b) ==
  IF a = << >> \/ b = << >> THEN << >>
  ELSE LET rest == BigMul(a, Tail(b))
       IN  BigAdd(Trim(BigMulDigit(a, b[1], 0)),
                  IF rest = << >> THEN rest ELSE << 0 >> \o rest)

RECURSIVE BigLess(_, _)
BigLess(a, b) ==
  IF Len(a) # Len(b) THEN Len(a) < Len(b)
  ELSE IF a = << >> THEN FALSE
  ELSE LET n == Len(a)
       IN  IF a[n] # b[n] THEN a[n] < b[n]
           ELSE BigLess(SubSeq(a, 1, n - 1), SubSeq(b, 1, n - 1))

Rational(neg, num, den) ==
  [neg |-> neg /\ num # << >>, num |-> num, den |-> den]

RatOfInt(n) == Rational(n < 0, Big(Abs(n)), Big(1))

\* x * p / q for natural numbers p, q > 0.
RatScale(x, p, q) == Rational(x.neg, BigMul(x.num, Big(p)), BigMul(x.den, Big(q)))

\* x + k for an integer k.
RatAddInt(x, k) ==
  LET kd == BigMul(Big(Abs(k)), x.den)
  IN  IF x.neg = (k < 0) \/ kd = << >> \/ x.num = << >>
      THEN Rational(IF x.num = << >> THEN k < 0 ELSE x.neg, BigAdd(x.num, kd), x.den)
      ELSE IF BigLess(x.num, kd) THEN Rational(k < 0, BigSub(kd, x.num), x.den)
      ELSE Rational(x.neg, BigSub(x.num, kd), x.den)

\* x = y as numbers.
RatEqual(x, y) == x.neg = y.neg /\ BigMul(x.num, y.den) = BigMul(y.num, x.den)

\* |x - k| < 1 / q for an integer k and a natural number q > 0.
RatWithin(x, k, q) ==
  LET d == RatAddInt(x, -k)
  IN  BigLess(BigMul(d.num, Big(q)), d.den)

\* ------------------------------------------------------------ unit_conversion
celsius_to_fahrenheit(value) == RatAddInt(RatScale(value, 9, 5), 32)

fahrenheit_to_celsius(value) == RatScale(RatAddInt(value, -32), 5, 9)

\* value * 14.5038
bar_to_psi(value) == RatScale(value, 145038, 10000)

\* value / 14.5038
psi_to_bar(value) == RatScale(value, 10000, 145038)

\* value * 35.3147 * 24 / 1000
cubic_meters_per_hour_to_mcf_per_day(value) ==
  RatScale(RatScale(value, 353147, 10000), 24, 1000)

\* value * 1000 * 0.0283168 / 24
mcf_per_day_to_cubic_meters_per_hour(value) ==
  RatScale(RatScale(RatScale(value, 1000, 1), 283168, 10000000), 1, 24)

\* The keys of UNIT_CONVERSIONS and the function each selects.
UNIT_CONVERSIONS ==
  { << "°C", "°F", "celsius_to_fahrenheit" >>,
    << "°F", "°C", "fahrenheit_to_celsius" >>,
    << "bar", "PSI", "bar_to_psi" >>,
    << "PSI", "bar", "psi_to_bar" >>,
    << "m3/h", "MCF/day", "cubic_meters_per_hour_to_mcf_per_day" >>,
    << "MCF/day", "m3/h", "mcf_per_day_to_cubic_meters_per_hour" >> }

ConversionKeys == { << e[1], e[2] >> : e \in UNIT_CONVERSIONS }

conversion_func(name, value) ==
  CASE name = "celsius_to_fahrenheit" -> celsius_to_fahrenheit(value)
    [] name = "fahrenheit_to_celsius" -> fahrenheit_to_celsius(value)
    [] name = "bar_to_psi" -> bar_to_psi(value)
    [] name = "psi_to_bar" -> psi_to_bar(value)
    [] name = "cubic_meters_per_hour_to_mcf_per_day" ->
         cubic_meters_per_hour_to_mcf_per_day(value)
    [] name = "mcf_per_day_to_cubic_meters_per_hour" ->
         mcf_per_day_to_cubic_meters_per_hour(value)

Returned(value) == [raised |-> "", value |-> value]

Raised(error) == [raised |-> error, value |-> RatOfInt(0)]

\* convert_value without the shortcut for equal units.
convert_value_NoShortcut(value, from_unit, to_unit) ==
  IF << from_unit, to_unit >> \notin ConversionKeys THEN Raised("ValueError")
  ELSE LET e == CHOOSE x \in UNIT_CONVERSIONS : x[1] = from_unit /\ x[2] = to_unit
       IN  Returned(conversion_func(e[3], value))

convert_value(value, from_unit, to_unit) ==
  IF from_unit = to_unit THEN Returned(value)
  ELSE IF << from_unit, to_unit >> \notin ConversionKeys THEN Raised("ValueError")
  ELSE LET e == CHOOSE x \in UNIT_CONVERSIONS : x[1] = from_unit /\ x[2] = to_unit
       IN  Returned(conversion_func(e[3], value))

\* class UnitSystem(Enum)
UnitSystems == {"metric", "imperial"}

\* Python's None, as a unit or a unit system.
None == "None"

\* get_unit_system(unit)
get_unit_system(unit) ==
  IF unit \in {"°C", "bar", "m3/h", "mm/s"} THEN "metric"
  ELSE IF unit \in {"°F", "PSI", "MCF/day"} THEN "imperial"
  ELSE None

\* unit_mappings of get_equivalent_unit, as a set of pairs (unit, equivalent).
unit_mappings ==
  { << "°C", "°F" >>, << "°F", "°C" >>, << "bar", "PSI" >>, << "PSI", "bar" >>,
    << "m3/h", "MCF/day" >>, << "MCF/day", "m3/h" >> }

\* get_equivalent_unit without the comparison of the equivalent's system
\* with the target system.
get_equivalent_unit_AnySystem(unit, target_system) ==
  IF \A m \in unit_mappings : m[1] # unit
  THEN None
  ELSE (CHOOSE m \in unit_mappings : m[1] = unit)[2]

\* get_equivalent_unit(unit, target_system)
get_equivalent_unit(unit, target_system) ==
  IF \A m \in unit_mappings : m[1] # unit
  THEN None
  ELSE LET equivalent_unit == (CHOOSE m \in unit_mappings : m[1] = unit)[2]
           equivalent_system == get_unit_system(equivalent_unit)
       IN  IF equivalent_system = target_system THEN equivalent_unit ELSE None

\* No caller of the unit_conversion module in this run.
NoConversion ==
  [ pc |-> "none", value |-> 0, from_unit |-> "", to_unit |-> "",
    converted |-> Raised(""), restored |-> Raised(""),
    target_system |-> "", equivalent_unit |-> "" ]

\* -------------------------------------------- data-api-service: MQTT ingest
\* Sensor readings that publishers send while the service runs.
MaxReadings == 2

\* Messages the service handles in a run.
MaxHandled == 4

\* A topic is the sequence of its levels: "ai_scada/data/temp-1" is
\* << "ai_scada", "data", "temp-1" >>, and topic.split('/') gives the levels.
\* MQTT_TOPIC_SUBSCRIBE, data-api-service/app/main.py line 40.
MQTT_TOPIC_SUBSCRIBE == << "ai_scada", "data", "#" >>

\* The broker's matching of a topic against a subscription filter.
RECURSIVE TopicMatches(_, _)
TopicMatches(filter, topic) ==
  IF filter = << >> THEN topic = << >>
  ELSE IF Head(filter) = "#" THEN TRUE
  ELSE IF topic = << >> THEN FALSE
  ELSE /\ Head(filter) \in {"+", Head(topic)}
       /\ TopicMatches(Tail(filter), Tail(topic))

\* The broker hands a message to every matching subscription, the
\* publisher's own included: the service's inbox after msg was published.
Deliver(inbox, msg) ==
  IF TopicMatches(MQTT_TOPIC_SUBSCRIBE, msg.topic) THEN Append(inbox, msg) ELSE inbox

\* topic.startswith("ai_scada/data/") of on_message
startswith_data(topic) ==
  Len(topic) >= 3 /\ topic[1] = "ai_scada" /\ topic[2] = "data"

\* Topics publishers send readings on.
ReadingTopics ==
  { << "ai_scada", "data", "temp-1" >>, << "ai_scada", "data", "flow-1" >>,
    << "ai_scada", "data" >>, << "ai_scada", "predictions", "temp-1" >> }

\* Payloads of publishers.  A JSON object is the record of its keys (a key
\* that is missing from the object is missing from the record); a text that
\* is no JSON is the record with the one field syntax_error.
ReadingPayloads ==
  { [unit |-> "PSI"], [syntax_error |-> TRUE],
    [value |-> 0, min_value |-> 1, max_value |-> -1], [value |-> 1],
    [value |-> 2, unit |-> "PSI"], [value |-> 3, timestamp |-> 0] }

\* json.loads(payload): the object, or JSONDecodeError.
json_loads(payload) ==
  IF "syntax_error" \in DOMAIN payload
  THEN [raised |-> "JSONDecodeError", data |-> payload]
  ELSE [raised |-> "", data |-> payload]

\* data.get(key, default)
Get(data, key, default) == IF key \in DOMAIN data THEN data[key] ELSE default

\* The sensors table when the service starts: temp-1 is known and has both
\* thresholds (a NULL column is a missing field).
SensorsAtStart == ( "temp-1" :> [unit |-> "°F", min_value |-> 1, max_value |-> 2] )

\* models.Sensor(...) of lines 82-91: the thresholds come from the payload
\* and are NULL when it has none.
NewSensor(data, unit) ==
  [ k \in {"unit"} \cup ({"min_value", "max_value"} \cap DOMAIN data) |->
      IF k = "unit" THEN unit ELSE data[k] ]

\* The data service at start: nothing received, stored or published.
IngestStart ==
  [ inbox |-> << >>, sensors |-> SensorsAtStart, sensor_data |-> << >>,
    alarms |-> << >>, published |-> << >>, sent |-> 0, handled |-> 0 ]

\* AlarmsFor as it would be if a value on a threshold raised an alarm too.
AlarmsFor_Inclusive(sensor_id, sensor, value) ==
  ( IF "min_value" \in DOMAIN sensor /\ value <= sensor.min_value
    THEN << [sensor_id |-> sensor_id, severity |-> 3, message |-> "below minimum"] >>
    ELSE << >> ) \o
  ( IF "max_value" \in DOMAIN sensor /\ value >= sensor.max_value
    THEN << [sensor_id |-> sensor_id, severity |-> 3, message |-> "above maximum"] >>
    ELSE << >> )

\* _check_alarm_conditions and _create_alarm, lines 135-184: the alarms a
\* value raises for a sensor row.
AlarmsFor(sensor_id, sensor, value) ==
  ( IF "min_value" \in DOMAIN sensor /\ value < sensor.min_value
    THEN << [sensor_id |-> sensor_id, severity |-> 3, message |-> "below minimum"] >>
    ELSE << >> ) \o
  ( IF "max_value" \in DOMAIN sensor /\ value > sensor.max_value
    THEN << [sensor_id |-> sensor_id, severity |-> 3, message |-> "above maximum"] >>
    ELSE << >> )

\* The confirmation of lines 120-127.
Confirmation(sensor_id, id, timestamp, value, unit) ==
  [ topic |-> << "ai_scada", "data", sensor_id, "confirmation" >>,
    payload |-> [ id |-> id, timestamp |-> timestamp, value |-> value,
                  unit |-> unit, status |-> "stored" ] ]

\* The topic check of process_sensor_data, line 45.
InvalidTopic(topic_parts) ==
  Len(topic_parts) < 3 \/ topic_parts[1] # "ai_scada" \/ topic_parts[2] # "data"

\* NoValue as it would be if a value of 0 counted as no value.
NoValue_Falsy(data) == "value" \notin DOMAIN data \/ data.value = 0

\* Lines 65-68: data.get('value') is None.
NoValue(data) == "value" \notin DOMAIN data

\* CommitRecord as it would be if the record's transaction were not
\* committed.
CommitRecord_RolledBack(sensor_data_table, row) == sensor_data_table

\* Lines 105-112: db.add(sensor_data); db.commit().
CommitRecord(sensor_data_table, row) == Append(sensor_data_table, row)

\* process_sensor_data(topic, payload), lines 41-133, on the service state
\* st: the state it leaves.  utcnow is the count of messages handled so
\* far; publish_ok tells whether the confirmation's publish succeeded.
process_sensor_data(st, topic, payload, publish_ok) ==
  IF InvalidTopic(topic) THEN st
  ELSE IF json_loads(payload).raised # "" THEN st
  ELSE IF NoValue(json_loads(payload).data) THEN st
  ELSE
    LET data == json_loads(payload).data
        sensor_id == topic[3]
        timestamp == Get(data, "timestamp", st.handled)
        value == data.value
        unit == Get(data, "unit", "")
        created == IF sensor_id \in DOMAIN st.sensors THEN st.sensors
                   ELSE st.sensors @@ (sensor_id :> NewSensor(data, unit))
        sensors == IF created[sensor_id].unit # unit /\ unit # ""
                   THEN [created EXCEPT ![sensor_id].unit = unit]
                   ELSE created
        row == [ id |-> Len(st.sensor_data) + 1, sensor_id |-> sensor_id,
                 timestamp |-> timestamp, value |-> value ]
        raised == AlarmsFor(sensor_id, sensors[sensor_id], value)
        alarm_messages ==
          [i \in 1..Len(raised) |->
             [topic |-> << "alarms", sensor_id >>, payload |-> raised[i]]]
        confirmation ==
          Confirmation(sensor_id, row.id, timestamp, value, sensors[sensor_id].unit)
    IN  [ st EXCEPT
            !.sensors = sensors,
            !.sensor_data = CommitRecord(@, row),
            !.alarms = @ \o raised,
            !.published = @ \o alarm_messages \o
                            (IF publish_ok THEN << confirmation >> ELSE << >>),
            !.inbox = IF publish_ok THEN Deliver(@, confirmation) ELSE @ ]

\* ------------------------------------------- data-api-service: alarms API
\* Acknowledge requests in flight at the same time.
NumRequests == 2

\* The users who acknowledge.
AckUsers == {"alice", "bob"}

\* Alarm ids the requests name; the last one is of no alarm.
RequestedAlarmIds == 1..3

\* The alarms table before the requests: alarm 1 is open, alarm 2 was
\* acknowledged earlier (a NULL column is a missing field).
AlarmsAtStart ==
  ( 1 :> [acknowledged |-> FALSE] @@
    2 :> [acknowledged |-> TRUE, acknowledged_by |-> "carol", acknowledged_at |-> 0] )

\* No acknowledge request in this run.
NoRequests == [ alarms |-> AlarmsAtStart, requests |-> << >>, utcnow |-> 1 ]

\* ------------------------------------------------------ pipeline-simulator
\* (src/services/pipeline-simulator/simulator.py)  Sensor values are counted
\* in hundredths, the precision of round(value, 2); times are seconds since
\* the simulator started.

\* A draw of random.uniform(a, b) is one of the points a + (b - a) * k / Steps.
Steps == 2
\* The main loop does not sleep again once MaxSimTime seconds have passed.
MaxSimTime == 1100

\* Values of the environment variable SIMULATION_INTERVAL: the default and
\* one that is longer than the period of the anomaly job.
SimulationIntervals == {5, 400}

\* schedule.every(60 * 60 / 10).seconds
AnomalyJobSeconds == 360

\* Draws of random.uniform(60, 300): both ends and the middle.
AnomalyDurations == {60, 180, 300}

\* One sensor of each type of PIPELINE_SEGMENTS (which has 17 sensors of
\* these seven types), the segments flattened.
PIPELINE_SEGMENTS ==
  << [id |-> "pressure-1", type |-> "pressure", min_value |-> 725,
      max_value |-> 7250, normal_range |-> << 1450, 4350 >>, noise_level |-> 145],
     [id |-> "flow-1", type |-> "flow", min_value |-> 850,
      max_value |-> 8500, normal_range |-> << 3400, 5100 >>, noise_level |-> 170],
     [id |-> "temp-1", type |-> "temperature", min_value |-> 4100,
      max_value |-> 8600, normal_range |-> << 5900, 7700 >>, noise_level |-> 90],
     [id |-> "vibration-1", type |-> "vibration", min_value |-> 0,
      max_value |-> 1000, normal_range |-> << 0, 300 >>, noise_level |-> 20],
     [id |-> "oil-production", type |-> "production", min_value |-> 5000,
      max_value |-> 20000, normal_range |-> << 7000, 12000 >>, noise_level |-> 300],
     [id |-> "water-cut", type |-> "percentage", min_value |-> 4000,
      max_value |-> 8000, normal_range |-> << 5000, 7000 >>, noise_level |-> 100],
     [id |-> "valve-inlet", type |-> "valve", min_value |-> 0,
      max_value |-> 10000, normal_range |-> << 6000, 10000 >>, noise_level |-> 50] >>

\* The record s with the fields of the record fields set or added.
SetFields(s, fields) ==
  [ k \in DOMAIN s \cup DOMAIN fields |-> IF k \in DOMAIN fields THEN fields[k] ELSE s[k] ]

\* The module's globals before main() ran (lines 242-248) and the two jobs of
\* the scheduler.  anomaly_start_time = None is a missing field; hit is the
\* last value of `random.random() < 0.1`, started counts the "Starting
\* anomaly" log records and last_publish is the time of the last
\* publish_sensor_data run.
NotStarted ==
  [ pc |-> "none", now |-> 0, SIMULATION_INTERVAL |-> 5,
    anomaly_mode |-> FALSE, anomaly_sensor |-> None, anomaly_duration |-> 0,
    publish_next_run |-> 0, anomaly_next_run |-> 0, last_publish |-> -1,
    hit |-> FALSE, started |-> 0 ]

\* random.uniform(a, b), as a fraction.
Uniform(a, b, k) == << a * Steps + (b - a) * k, Steps >>

\* Tenths in the anomaly formulas of lines 282-305.
AnomalyFactor(type) ==
  CASE type = "pressure" -> 8
    [] type = "flow" -> 7
    [] type = "temperature" -> 6
    [] type = "vibration" -> 9
    [] type = "production" -> 6
    [] type \in {"percentage", "valve"} -> 7
    [] OTHER -> 5

\* Lines 277-305: the base value during an anomaly, as a fraction;
\* anomaly_progress is progress / duration, above_half is the outcome of
\* `random.random() > 0.5`.
AnomalyBase(sensor, progress, duration, above_half) ==
  LET min_normal == sensor.normal_range[1]
      max_normal == sensor.normal_range[2]
      f == AnomalyFactor(sensor.type)
      d == 10 * duration
      n == CASE sensor.type = "temperature" ->
                  min_normal * d + (sensor.max_value - min_normal) * progress * f
             [] sensor.type = "vibration" ->
                  max_normal * d + (sensor.max_value - max_normal) * progress * f
             [] sensor.type \in {"percentage", "valve"} ->
                  IF above_half
                  THEN min_normal * d - (min_normal - sensor.min_value) * progress * f
                  ELSE max_normal * d + (sensor.max_value - max_normal) * progress * f
             [] OTHER ->
                  max_normal * d - (max_normal - sensor.min_value) * progress * f
  IN  << n, d >>

\* Line 314 without the bounds.
clamp_Nothing(sensor, value) == value

\* Line 314: max(sensor["min_value"], min(sensor["max_value"], value)).
clamp(sensor, value) ==
  IF value[1] > sensor.max_value * value[2] THEN << sensor.max_value, 1 >>
  ELSE IF value[1] < sensor.min_value * value[2] THEN << sensor.min_value, 1 >>
  ELSE value

\* Line 317: round(value, 2), a whole number of hundredths; a tie goes to the
\* even neighbour.
round2(value) ==
  LET q == value[1] \div value[2]
      r == value[1] % value[2]
  IN  IF 2 * r < value[2] THEN q
      ELSE IF 2 * r > value[2] THEN q + 1
      ELSE IF q % 2 = 0 THEN q ELSE q + 1

\* generate_sensor_value(sensor, timestamp) under the globals g; base_draw,
\* noise_draw in 0..Steps and above_half are the outcomes of the random calls.
generate_sensor_value(g, sensor, timestamp, base_draw, noise_draw, above_half) ==
  LET in_anomaly == /\ g.anomaly_mode
                    /\ g.anomaly_sensor # None
                    /\ sensor.id = g.anomaly_sensor
      elapsed == timestamp - g.anomaly_start_time
      progress == IF elapsed > g.anomaly_duration THEN g.anomaly_duration ELSE elapsed
      base_value == IF in_anomaly
                    THEN AnomalyBase(sensor, progress, g.anomaly_duration, above_half)
                    ELSE Uniform(sensor.normal_range[1], sensor.normal_range[2], base_draw)
      noise == Uniform(-sensor.noise_level, sensor.noise_level, noise_draw)
      value == << base_value[1] * noise[2] + noise[1] * base_value[2],
                  base_value[2] * noise[2] >>
  IN  [ sensor_id |-> sensor.id, type |-> sensor.type,
        value |-> round2(clamp(sensor, value)), timestamp |-> timestamp,
        quality |-> 100 ]

\* publish_sensor_data ending an anomaly only after its duration has passed.
publish_sensor_data_After(s) ==
  LET over == s.anomaly_mode /\ s.now - s.anomaly_start_time > s.anomaly_duration
  IN  [ s EXCEPT !.last_publish = s.now,
                 !.anomaly_mode = IF over THEN FALSE ELSE @,
                 !.anomaly_sensor = IF over THEN None ELSE @ ]

\* Lines 355-360, the end of publish_sensor_data: the anomaly ends when its
\* duration has passed.  The messages go to the broker and leave no state.
publish_sensor_data(s) ==
  LET over == s.anomaly_mode /\ s.now - s.anomaly_start_time >= s.anomaly_duration
  IN  [ s EXCEPT !.last_publish = s.now,
                 !.anomaly_mode = IF over THEN FALSE ELSE @,
                 !.anomaly_sensor = IF over THEN None ELSE @ ]

\* Lines 362-380 without the test of anomaly_mode.
start_anomaly_Always(s, sensor, duration) ==
  SetFields(s, [ anomaly_mode |-> TRUE, anomaly_sensor |-> sensor.id,
                 anomaly_start_time |-> s.now, anomaly_duration |-> duration,
                 started |-> s.started + 1 ])

\* start_anomaly(): sensor and duration are the outcomes of random.choice and
\* random.uniform.
start_anomaly(s, sensor, duration) ==
  IF ~s.anomaly_mode
  THEN SetFields(s, [ anomaly_mode |-> TRUE, anomaly_sensor |-> sensor.id,
                      anomaly_start_time |-> s.now, anomaly_duration |-> duration,
                      started |-> s.started + 1 ])
  ELSE s

\* ------------------------------------------------------------------- state
VARIABLES
  sensor_data,        \* the historian's table: sensor -> readings
  inserts,            \* readings written since the service started
  clock,              \* wall clock, seconds
  H2O_MODEL_ID,       \* configuration: "" or the identifier of a stored model
  pc,                 \* position of the service's single thread
  mqtt_connected,     \* mqtt_client.is_connected()
  trained_model,      \* "None", "automl" (trained) or "loaded"
  feature_columns,    \* << >> stands for None and for []
  training_df,        \* main's fetched training frame
  processed_df,       \* main's processed training frame
  start_time,
  prediction_data,
  processed_prediction_data,
  h2o_frame,          \* None until h2o.H2OFrame returned this cycle's frame
  predict_calls,      \* the frames model.predict was called with this cycle
  predictions,        \* << >> until make_predictions returned a frame
  publish_calls,      \* this cycle's mqtt_client.publish calls, in order
  errors,             \* this cycle's logger.error records, in order
  elapsed_time,
  sleep_time,         \* argument of the cycle's time.sleep call; -1 before it
  conversion,         \* a caller of convert_value: its arguments and results
  ingest,             \* the data service's MQTT side: inbox, tables, messages sent
  ack,                \* the alarms table and the acknowledge requests in flight
  simulator           \* the pipeline simulator: globals, clock and scheduler

vars ==
  << sensor_data, inserts, clock, H2O_MODEL_ID, pc, mqtt_connected,
     trained_model, feature_columns, training_df, processed_df, start_time,
     prediction_data, processed_prediction_data, h2o_frame, predict_calls,
     predictions, publish_calls, errors, elapsed_time, sleep_time, conversion,
     ingest, ack, simulator >>

\* The state of the other programs of the repository.
foreign_vars == << conversion, ingest, ack, simulator >>

startup_vars ==
  << H2O_MODEL_ID, mqtt_connected, trained_model, feature_columns, training_df,
     processed_df >>

cycle_vars ==
  << start_time, prediction_data, processed_prediction_data, h2o_frame,
     predict_calls, predictions, publish_calls, errors, elapsed_time, sleep_time >>

Now0 == 30 * TickSeconds

SensorIndex(s) == CHOOSE i \in 1..Len(AllSensors) \cup {0} :
                    IF s \in Range(AllSensors) THEN i > 0 /\ AllSensors[i] = s ELSE i = 0

\* Histories a sensor may have when the service starts: none, four readings
\* inside the lookback window, and four readings of which the oldest is
\* older than the window (three inside it).
HistoryKinds == {"none", "full", "stale"}

InitHistory(s, kind) ==
  LET b == 100 * SensorIndex(s)
      T(k) == Now0 - k * TickSeconds
      recent == << Reading(T(3), b + 12), Reading(T(2), b + 15), Reading(T(1), b + 17) >>
  IN  CASE kind = "none" -> << >>
        [] kind = "full" -> << Reading(T(4), b + 10) >> \o recent
        [] kind = "stale" ->
             << Reading(T((LookbackSeconds \div TickSeconds) + 1), b + 10) >> \o recent

StoredModelIds == {"", "GBM_1"}

Init ==
  /\ \E kind \in [Vocabulary -> HistoryKinds] :
       sensor_data = [s \in DbSensors |->
                        IF s \in Vocabulary THEN InitHistory(s, kind[s])
                        ELSE InitHistory(s, "full")]
  /\ inserts = 0
  /\ clock = Now0
  /\ H2O_MODEL_ID \in StoredModelIds
  /\ pc = "main"
  /\ mqtt_connected = FALSE
  /\ trained_model = "None"
  /\ feature_columns = << >>
  /\ training_df = NoneFrame
  /\ processed_df = NoneFrame
  /\ start_time = 0
  /\ prediction_data = NoneFrame
  /\ processed_prediction_data = NoneFrame
  /\ predictions = << >>
  /\ h2o_frame = NoneFrame
  /\ predict_calls = << >>
  /\ publish_calls = << >>
  /\ errors = << >>
  /\ elapsed_time = 0
  /\ sleep_time = -1
  /\ conversion = NoConversion
  /\ ingest = IngestStart
  /\ ack = NoRequests
  /\ simulator = NotStarted

\* Time the work of a cycle may take (spent in the model's PREDICT step).
WorkDurations == { k * TickSeconds : k \in 0..MaxWorkTicks }

\* ----------------------------------------------------------------- startup
\* main(), lines 465-477: setup_mqtt_client() returns None or h2o.init() raises.
MainSetupFails ==
  /\ pc = "main"
  /\ pc' = "exited"
  /\ UNCHANGED << foreign_vars, sensor_data, inserts, clock, startup_vars, cycle_vars >>

\* What trained_model.varimp(use_pandas=True)['variable'].tolist() may give
\* for a stored model: nothing, or the model's predictors by decreasing
\* importance (here: the encoder's columns in reverse).
VarimpLists ==
  LET enc == base_features \o all_sensor_columns
  IN  { << >>,
        [i \in 1..Len(enc) |-> enc[Len(enc) + 1 - i]] }

\* main(), lines 480-491, when the stored model loads: the model handle and
\* the feature columns come from the stored model, training is skipped and
\* main calls prediction_loop().
MainLoadModel ==
  /\ pc = "main"
  /\ H2O_MODEL_ID # ""
  /\ \E fc \in VarimpLists :
       /\ trained_model' = "loaded"
       /\ feature_columns' = fc
  /\ pc' = "prediction_loop"
  /\ UNCHANGED << foreign_vars, sensor_data, inserts, clock, H2O_MODEL_ID, mqtt_connected,
                  training_df, processed_df, cycle_vars >>

\* columns_tolist as it would be if main recorded no columns after training.
columns_tolist_Nothing(df) == << >>

\* main(), line 537: processed_df.columns.tolist().
columns_tolist(df) == df.columns

\* StartLoopOrExit as it would be if main called prediction_loop() whatever
\* became of the model.
StartLoopOrExit_Always(model) == "prediction_loop"

\* main(), lines 550-555: prediction_loop() is called only with a model.
StartLoopOrExit(model) == IF model # "None" THEN "prediction_loop" ELSE "exited"

\* main(), lines 493-555, when no model id is configured or loading it
\* raised (trained_model = None): fetch, encode, convert, train.
MainTrain ==
  /\ pc = "main"
  /\ \E db_ok, dummies_ok, frame_ok, train_ok \in BOOLEAN :
       LET fetched == IF db_ok THEN FetchTrainingData(sensor_data, SENSORS_TO_PREDICT)
                      ELSE NoneFrame
           processed == ProcessData(fetched, dummies_ok)
       IN  /\ training_df' = fetched
           /\ IF fetched.isNone \/ Len(fetched.rows) = 0
              THEN \* "No training data fetched or data is empty. Cannot proceed."
                   /\ pc' = "exited"
                   /\ UNCHANGED << trained_model, feature_columns, processed_df >>
              ELSE IF processed.isNone
              THEN \* "Model training failed. Service cannot proceed."
                   /\ pc' = StartLoopOrExit(trained_model)
                   /\ UNCHANGED << trained_model, feature_columns, processed_df >>
              ELSE IF ~frame_ok
              THEN \* h2o.H2OFrame raises: "return  # Exit if training fails"
                   /\ pc' = "exited"
                   /\ processed_df' = processed
                   /\ UNCHANGED << trained_model, feature_columns >>
              ELSE /\ processed_df' = processed
                   /\ feature_columns' = columns_tolist(processed)
                   /\ trained_model' = IF train_ok THEN "automl" ELSE "None"
                   /\ pc' = StartLoopOrExit(IF train_ok THEN "automl" ELSE "None")
  /\ UNCHANGED << foreign_vars, sensor_data, inserts, clock, H2O_MODEL_ID, mqtt_connected, cycle_vars >>

\* EnterLoop as it would be if prediction_loop() did not look at the MQTT
\* client before starting.
EnterLoop_NoConnectionCheck ==
  /\ pc = "prediction_loop"
  /\ \E connected \in BOOLEAN :
       /\ mqtt_connected' = connected
       /\ pc' = IF trained_model = "None" \/ feature_columns = << >>
                THEN "exited" ELSE "FETCH"
  /\ UNCHANGED << foreign_vars, sensor_data, inserts, clock, H2O_MODEL_ID, trained_model,
                  feature_columns, training_df, processed_df, cycle_vars >>

\* prediction_loop(), lines 361-370: the two entry checks.
EnterLoop ==
  /\ pc = "prediction_loop"
  /\ \E connected \in BOOLEAN :
       /\ mqtt_connected' = connected
       /\ pc' = IF trained_model = "None" \/ feature_columns = << >> \/ ~connected
                THEN "exited" ELSE "FETCH"
  /\ UNCHANGED << foreign_vars, sensor_data, inserts, clock, H2O_MODEL_ID, trained_model,
                  feature_columns, training_df, processed_df, cycle_vars >>

\* --------------------------------------------------------- prediction loop
\* FailCycle as it would be if the error left the while loop.
FailCycle_Escapes(msg) ==
  /\ errors' = Append(errors, msg)
  /\ sleep_time' = sleep_time
  /\ pc' = "exited"

\* FailCycle as it would be if a failed cycle started the next one at once.
FailCycle_NoSleep(msg) ==
  /\ errors' = Append(errors, msg)
  /\ sleep_time' = 0
  /\ pc' = "IDLE"

\* FailCycle as it would be if a failed cycle slept like a completed one.
FailCycle_NoBackoff(msg) ==
  /\ errors' = Append(errors, msg)
  /\ sleep_time' = Max(0, PREDICTION_INTERVAL_SECONDS - (clock' - start_time'))
  /\ pc' = "IDLE"

\* Lines 380-383 and 390-393: logger.error(msg); time.sleep(interval); continue
\* and lines 454-457: the loop's except clause.
FailCycle(msg) ==
  /\ errors' = Append(errors, msg)
  /\ sleep_time' = PREDICTION_INTERVAL_SECONDS
  /\ pc' = "IDLE"

\* Lines 373-383: FETCH.
Fetch ==
  /\ pc = "FETCH"
  /\ start_time' = clock
  /\ clock' = clock
  /\ \E db_ok \in BOOLEAN,
        result \in FetchLatest(sensor_data, SENSORS_TO_PREDICT, clock) :
       /\ LET data == IF db_ok THEN result ELSE NoneFrame
          IN  IF data.isNone
              THEN /\ FailCycle("Failed to get prediction data")
                   /\ UNCHANGED prediction_data
              ELSE /\ prediction_data' = data
                   /\ pc' = "ENCODE"
                   /\ UNCHANGED << errors, sleep_time >>
  /\ UNCHANGED << foreign_vars, sensor_data, inserts, startup_vars, processed_prediction_data,
                  h2o_frame, predict_calls, predictions, publish_calls, elapsed_time >>

\* Lines 385-393: ENCODE.
Encode ==
  /\ pc = "ENCODE"
  /\ UNCHANGED << clock, start_time >>
  /\ \E dummies_ok \in BOOLEAN :
       /\ LET processed == ProcessData(prediction_data, dummies_ok)
          IN  IF processed.isNone
              THEN /\ FailCycle("Failed to process prediction data")
                   /\ UNCHANGED processed_prediction_data
              ELSE /\ processed_prediction_data' = processed
                   /\ pc' = "PREDICT"
                   /\ UNCHANGED << errors, sleep_time >>
  /\ UNCHANGED << foreign_vars, sensor_data, inserts, startup_vars, prediction_data,
                  h2o_frame, predict_calls, predictions, publish_calls, elapsed_time >>

\* make_predictions as it would be if model.predict were called once for
\* every row of the frame.
make_predictions_Calls_PerRow(data_hf) ==
  [i \in 1..Len(data_hf.rows) |-> Frame(data_hf.columns, << data_hf.rows[i] >>)]

\* make_predictions(model, data_hf), lines 339-355: the frames model.predict
\* is called with (the model is never None inside the loop).
make_predictions_Calls(data_hf) == << data_hf >>

\* Lines 401-412: PREDICT.  h2o.H2OFrame (or the describe() of line 406) may
\* raise, and then make_predictions is not reached; make_predictions returns
\* None when model.predict raises, and predictions.describe() of line 412
\* then raises: both end in the loop's except clause.
Predict ==
  /\ pc = "PREDICT"
  /\ UNCHANGED start_time
  /\ \E d \in WorkDurations, frame_ok, predict_ok \in BOOLEAN :
       /\ clock' = clock + d
       /\ h2o_frame' = IF frame_ok THEN processed_prediction_data ELSE NoneFrame
       /\ predict_calls' = IF frame_ok
                           THEN predict_calls \o make_predictions_Calls(processed_prediction_data)
                           ELSE predict_calls
       /\ IF frame_ok /\ predict_ok
          THEN /\ predictions' = ModelPredict(processed_prediction_data)
               /\ pc' = "PUBLISH"
               /\ UNCHANGED << errors, sleep_time >>
          ELSE /\ FailCycle("Unexpected error in prediction loop")
               /\ UNCHANGED predictions
  /\ UNCHANGED << foreign_vars, sensor_data, inserts, startup_vars, prediction_data,
                  processed_prediction_data, publish_calls, elapsed_time >>

PublishResults == {"ok", "rc", "raise"}

\* Topic as it would be if every prediction went to one topic for all sensors.
Topic_PrefixOnly(sensor_id) == MQTT_PREDICTION_TOPIC_PREFIX

\* Line 429.
Topic(sensor_id) == MQTT_PREDICTION_TOPIC_PREFIX \o "/" \o sensor_id

\* One mqtt_client.publish call of lines 427-437 and what became of it.
PublishCall(sensor_id, predicted_value, at, result) ==
  [ topic |-> Topic(sensor_id),
    payload |-> [ timestamp |-> at, sensor_id |-> sensor_id,
                  value |-> predicted_value, type |-> "prediction" ],
    result |-> result ]

\* Lines 416-444: the calls made and the errors logged when the i-th publish
\* ends as outcome[i].  The for loop stands inside the try: a call that
\* raises ends the loop.
PublishLoop(original_prediction_data, preds, outcome, at) ==
  LET n == Len(preds)
      raised == { i \in 1..n : outcome[i] = "raise" }
      last == IF raised = {} THEN n ELSE CHOOSE i \in raised : \A j \in raised : i <= j
      sensor(i) == original_prediction_data.rows[i]["sensor_id"]
      RECURSIVE Logged(_)
      Logged(i) ==
        IF i = 0 THEN << >>
        ELSE Logged(i - 1) \o
             ( IF outcome[i] = "rc" THEN << "Failed to publish prediction for " \o sensor(i) >>
               ELSE IF outcome[i] = "raise" THEN << "Error formatting or publishing predictions" >>
               ELSE << >> )
  IN  [ calls |-> [i \in 1..last |-> PublishCall(sensor(i), preds[i], at, outcome[i])],
        logged |-> Logged(last) ]

\* SleepTime without the clamp at 0.
SleepTime_NoClamp(elapsed) == PREDICTION_INTERVAL_SECONDS - elapsed

\* Lines 449-450.
SleepTime(elapsed) == Max(0, PREDICTION_INTERVAL_SECONDS - elapsed)

\* Lines 414-452: PUBLISH, then the cycle's elapsed time and sleep time.
Publish ==
  /\ pc = "PUBLISH"
  /\ \E outcome \in [1..Len(predictions) -> PublishResults] :
       LET done == PublishLoop(prediction_data, predictions, outcome, clock)
       IN  /\ publish_calls' = done.calls
           /\ errors' = errors \o done.logged
  /\ elapsed_time' = clock - start_time
  /\ sleep_time' = SleepTime(clock - start_time)
  /\ pc' = "IDLE"
  /\ UNCHANGED << foreign_vars, sensor_data, inserts, clock, startup_vars, start_time, prediction_data,
                  processed_prediction_data, h2o_frame, predict_calls, predictions >>

\* Sleep as it would be if the errors of a cycle stayed with the next one.
Sleep_KeepsErrors ==
  /\ pc = "IDLE"
  /\ clock + sleep_time <= Now0 + MaxRun
  /\ clock' = clock + sleep_time
  /\ pc' = "FETCH"
  /\ prediction_data' = NoneFrame
  /\ processed_prediction_data' = NoneFrame
  /\ predictions' = << >>
  /\ h2o_frame' = NoneFrame
  /\ predict_calls' = << >>
  /\ publish_calls' = << >>
  /\ elapsed_time' = 0
  /\ sleep_time' = -1
  /\ UNCHANGED << foreign_vars, sensor_data, inserts, startup_vars, start_time, errors >>

\* Sleep as it would be if a new iteration cleared the recorded schema.
Sleep_ClearsSchema ==
  /\ pc = "IDLE"
  /\ clock + sleep_time <= Now0 + MaxRun
  /\ clock' = clock + sleep_time
  /\ pc' = "FETCH"
  /\ prediction_data' = NoneFrame
  /\ processed_prediction_data' = NoneFrame
  /\ predictions' = << >>
  /\ h2o_frame' = NoneFrame
  /\ predict_calls' = << >>
  /\ publish_calls' = << >>
  /\ errors' = << >>
  /\ elapsed_time' = 0
  /\ sleep_time' = -1
  /\ feature_columns' = << >>
  /\ UNCHANGED << foreign_vars, sensor_data, inserts, H2O_MODEL_ID, mqtt_connected, trained_model,
                  training_df, processed_df, start_time >>

\* Sleep as it would be if the next iteration began without waiting for
\* time.sleep to return.
Sleep_ReturnsAtOnce ==
  /\ pc = "IDLE"
  /\ clock + sleep_time <= Now0 + MaxRun
  /\ clock' = clock
  /\ pc' = "FETCH"
  /\ prediction_data' = NoneFrame
  /\ processed_prediction_data' = NoneFrame
  /\ predictions' = << >>
  /\ h2o_frame' = NoneFrame
  /\ predict_calls' = << >>
  /\ publish_calls' = << >>
  /\ errors' = << >>
  /\ elapsed_time' = 0
  /\ sleep_time' = -1
  /\ UNCHANGED << foreign_vars, sensor_data, inserts, startup_vars, start_time >>

\* time.sleep returns and the while loop starts its next iteration; the
\* iteration's local variables are all assigned again before they are read.
Sleep ==
  /\ pc = "IDLE"
  /\ clock + sleep_time <= Now0 + MaxRun
  /\ clock' = clock + sleep_time
  /\ pc' = "FETCH"
  /\ prediction_data' = NoneFrame
  /\ processed_prediction_data' = NoneFrame
  /\ predictions' = << >>
  /\ h2o_frame' = NoneFrame
  /\ predict_calls' = << >>
  /\ publish_calls' = << >>
  /\ errors' = << >>
  /\ elapsed_time' = 0
  /\ sleep_time' = -1
  /\ UNCHANGED << foreign_vars, sensor_data, inserts, startup_vars, start_time >>

\* ------------------------------------------------------------- environment
\* The data service stores a reading (SensorData row, timestamp utcnow).
\* The model lets it happen between two cycles, and gives the n-th reading
\* of a sensor the value n (the service never branches on a value).
StoreReading ==
  /\ pc = "FETCH"
  /\ inserts < MaxInserts
  /\ \E s \in Vocabulary :
       sensor_data' = [sensor_data EXCEPT ![s] = Append(@, Reading(clock, Len(@) + 1))]
  /\ inserts' = inserts + 1
  /\ UNCHANGED << foreign_vars, clock, pc, startup_vars, cycle_vars >>

Next ==
  \/ MainSetupFails
  \/ MainLoadModel
  \/ MainTrain
  \/ EnterLoop
  \/ Fetch
  \/ Encode
  \/ Predict
  \/ Publish
  \/ Sleep
  \/ StoreReading

Spec == Init /\ [][Next]_vars

\* ------------------------------------------------- process_data on its own
\* process_data is a module-level function of a frame.  EncodeSpec calls it
\* once on a frame of either shape its callers build: rows of
\* fetch_training_data (sensor_id, timestamp, value) or rows of
\* fetch_latest_data_for_prediction, of any sensor the historian holds.
RawTrainingRows ==
  { [sensor_id |-> s, timestamp |-> t, value |-> v] :
      s \in DbSensors, t \in {Now0, Now0 + 86400 + 3661}, v \in {1, 2} }

RawPredictionRows ==
  UNION { { PredictionRow(r) : r \in LatestRows(s, InitHistory(s, "full"), Now0) } :
            s \in DbSensors }

FramesOf(cols, rowset) ==
  { Frame(cols, rws) : rws \in UNION { [1..n -> rowset] : n \in 1..MaxFrameRows } }

EncoderInputs ==
  FramesOf(training_columns, RawTrainingRows)
    \cup FramesOf(prediction_columns, RawPredictionRows)

InitEncode ==
  /\ sensor_data = [s \in DbSensors |-> << >>]
  /\ inserts = 0
  /\ clock = Now0
  /\ H2O_MODEL_ID = ""
  /\ pc = "process_data"
  /\ mqtt_connected = FALSE
  /\ trained_model = "None"
  /\ feature_columns = << >>
  /\ training_df = NoneFrame
  /\ processed_df = NoneFrame
  /\ start_time = 0
  /\ prediction_data \in EncoderInputs
  /\ processed_prediction_data = NoneFrame
  /\ predictions = << >>
  /\ h2o_frame = NoneFrame
  /\ predict_calls = << >>
  /\ publish_calls = << >>
  /\ errors = << >>
  /\ elapsed_time = 0
  /\ sleep_time = -1
  /\ conversion = NoConversion
  /\ ingest = IngestStart
  /\ ack = NoRequests
  /\ simulator = NotStarted

CallProcessData ==
  /\ pc = "process_data"
  /\ \E dummies_ok \in BOOLEAN :
       processed_prediction_data' = ProcessData(prediction_data, dummies_ok)
  /\ pc' = "returned"
  /\ UNCHANGED << foreign_vars, sensor_data, inserts, clock, startup_vars, start_time,
                  prediction_data, h2o_frame, predict_calls, predictions, publish_calls,
                  errors,
                  elapsed_time, sleep_time >>

NextEncode == CallProcessData

EncodeSpec == InitEncode /\ [][NextEncode]_vars

\* ------------------------------------------------ convert_value on its own
\* ConvertSpec follows one caller of convert_value: it converts a value from
\* one unit to another and, when that returned, converts the result back.
\* The units are the seven the module names and one it does not know.
Units == { "°C", "°F", "bar", "PSI", "m3/h", "MCF/day", "mm/s", "K" }

RECURSIVE Pow10(_)
Pow10(e) == IF e = 0 THEN 1 ELSE 10 * Pow10(e - 1)

\* The values converted: 0, the values of the tests' round trips, and 1 and 2
\* times the powers of ten up to 10^MaxExp, of either sign.
ConvertValues ==
  { 0, 5, 25 } \cup { sgn * m * Pow10(e) : sgn \in {-1, 1}, m \in {1, 2}, e \in 0..MaxExp }

\* The automl service is not running.
ServiceIdle ==
  /\ sensor_data = [s \in DbSensors |-> << >>]
  /\ inserts = 0
  /\ clock = Now0
  /\ H2O_MODEL_ID = ""
  /\ pc = "none"
  /\ mqtt_connected = FALSE
  /\ trained_model = "None"
  /\ feature_columns = << >>
  /\ training_df = NoneFrame
  /\ processed_df = NoneFrame
  /\ start_time = 0
  /\ prediction_data = NoneFrame
  /\ processed_prediction_data = NoneFrame
  /\ predictions = << >>
  /\ h2o_frame = NoneFrame
  /\ predict_calls = << >>
  /\ publish_calls = << >>
  /\ errors = << >>
  /\ elapsed_time = 0
  /\ sleep_time = -1

service_vars ==
  << sensor_data, inserts, clock, pc, startup_vars, cycle_vars >>

InitConvert ==
  /\ ServiceIdle
  /\ \E value \in ConvertValues, from_unit \in Units, to_unit \in Units :
       conversion = [ NoConversion EXCEPT !.pc = "call", !.value = value,
                                          !.from_unit = from_unit, !.to_unit = to_unit ]
  /\ ingest = IngestStart
  /\ ack = NoRequests
  /\ simulator = NotStarted

\* convert_value(value, from_unit, to_unit)
Convert ==
  /\ conversion.pc = "call"
  /\ LET r == convert_value(RatOfInt(conversion.value),
                            conversion.from_unit, conversion.to_unit)
     IN  conversion' = [ conversion EXCEPT
                           !.converted = r,
                           !.pc = IF r.raised = "" THEN "converted" ELSE "raised" ]
  /\ UNCHANGED << service_vars, ingest, ack, simulator >>

\* convert_value(converted, to_unit, from_unit)
ConvertBack ==
  /\ conversion.pc = "converted"
  /\ conversion' = [ conversion EXCEPT
                       !.restored = convert_value(conversion.converted.value,
                                                  conversion.to_unit, conversion.from_unit),
                       !.pc = "restored" ]
  /\ UNCHANGED << service_vars, ingest, ack, simulator >>

\* get_equivalent_unit(from_unit, target_system), for either unit system
EquivalentUnit ==
  /\ conversion.pc = "call"
  /\ \E target_system \in UnitSystems :
       conversion' = [ conversion EXCEPT
                         !.target_system = target_system,
                         !.equivalent_unit =
                            get_equivalent_unit(conversion.from_unit, target_system),
                         !.pc = "equivalent" ]
  /\ UNCHANGED << service_vars, ingest, ack, simulator >>

NextConvert == Convert \/ ConvertBack \/ EquivalentUnit

ConvertSpec == InitConvert /\ [][NextConvert]_vars

\* ------------------------------------------------- the MQTT ingest on its own
InitIngest ==
  /\ ServiceIdle
  /\ conversion = NoConversion
  /\ ingest = IngestStart
  /\ ack = NoRequests
  /\ simulator = NotStarted

\* A publisher sends a reading; the broker hands it to the service when the
\* topic matches the service's subscription (on_connect, lines 58-62).
PublishReading ==
  /\ ingest.sent < MaxReadings
  /\ \E topic \in ReadingTopics, payload \in ReadingPayloads :
       ingest' = [ ingest EXCEPT
                     !.sent = @ + 1,
                     !.inbox = Deliver(@, [topic |-> topic, payload |-> payload]) ]
  /\ UNCHANGED << service_vars, conversion, ack, simulator >>

\* on_message (data-api-service/app/main.py lines 66-76) for the oldest
\* message of the inbox, with the whole of process_sensor_data.
OnMessage ==
  /\ ingest.inbox # << >>
  /\ ingest.handled < MaxHandled
  /\ LET msg == Head(ingest.inbox)
         taken == [ ingest EXCEPT !.inbox = Tail(@), !.handled = @ + 1 ]
     IN  \E publish_ok \in BOOLEAN :
           ingest' = IF startswith_data(msg.topic)
                     THEN process_sensor_data(taken, msg.topic, msg.payload, publish_ok)
                     ELSE taken
  /\ UNCHANGED << service_vars, conversion, ack, simulator >>

NextIngest == PublishReading \/ OnMessage

IngestSpec == InitIngest /\ [][NextIngest]_vars

\* ---------------------------------------- acknowledge requests on their own
\* Each request names an alarm and a user and has not run yet.
InitAck ==
  /\ ServiceIdle
  /\ conversion = NoConversion
  /\ ingest = IngestStart
  /\ \E requests \in [1..NumRequests ->
                        [ pc : {"query"}, alarm_id : RequestedAlarmIds,
                          acknowledged_by : AckUsers, status_code : {0} ]] :
       ack = [ NoRequests EXCEPT !.requests = requests ]
  /\ simulator = NotStarted

\* acknowledge_alarm, lines 110-115, in the session of request r: the alarm
\* is read, and the request ends with 404 or 400 or goes on.
AckQuery(r) ==
  /\ ack.requests[r].pc = "query"
  /\ LET alarm_id == ack.requests[r].alarm_id
     IN  ack' = [ ack EXCEPT !.requests[r] =
                    IF alarm_id \notin DOMAIN ack.alarms
                    THEN [ @ EXCEPT !.pc = "done", !.status_code = 404 ]
                    ELSE IF ack.alarms[alarm_id].acknowledged
                    THEN [ @ EXCEPT !.pc = "done", !.status_code = 400 ]
                    ELSE [ @ EXCEPT !.pc = "commit" ] ]
  /\ UNCHANGED << service_vars, conversion, ingest, simulator >>

\* acknowledge_alarm, lines 117-123, in the session of request r: the three
\* columns are set on the object read before and written by db.commit().
AckCommit(r) ==
  /\ ack.requests[r].pc = "commit"
  /\ ack' = [ ack EXCEPT
               !.alarms[ack.requests[r].alarm_id] =
                  [ acknowledged |-> TRUE,
                    acknowledged_by |-> ack.requests[r].acknowledged_by,
                    acknowledged_at |-> ack.utcnow ],
               !.utcnow = @ + 1,
               !.requests[r] = [ @ EXCEPT !.pc = "done", !.status_code = 200 ] ]
  /\ UNCHANGED << service_vars, conversion, ingest, simulator >>

NextAck == \E r \in 1..NumRequests : AckQuery(r) \/ AckCommit(r)

AckSpec == InitAck /\ [][NextAck]_vars

\* ------------------------------------------------ the simulator on its own
\* main() scheduled the two jobs (lines 417-420) and is about to publish for
\* the first time (line 423).
InitSim ==
  /\ ServiceIdle
  /\ conversion = NoConversion
  /\ ingest = IngestStart
  /\ ack = NoRequests
  /\ \E interval \in SimulationIntervals :
       simulator = [ NotStarted EXCEPT !.pc = "initial_publish",
                                       !.SIMULATION_INTERVAL = interval,
                                       !.publish_next_run = interval,
                                       !.anomaly_next_run = AnomalyJobSeconds ]

\* Line 423.
InitialPublish ==
  /\ simulator.pc = "initial_publish"
  /\ simulator' = [ publish_sensor_data(simulator) EXCEPT !.pc = "loop" ]
  /\ UNCHANGED << service_vars, conversion, ingest, ack >>

\* schedule.run_pending() runs the jobs that are due in the order of their
\* next_run, the publish job first when both are equal.
PublishJobDue ==
  /\ simulator.publish_next_run <= simulator.now
  /\ simulator.anomaly_next_run <= simulator.now
       => simulator.publish_next_run <= simulator.anomaly_next_run

AnomalyJobDue ==
  /\ simulator.anomaly_next_run <= simulator.now
  /\ simulator.publish_next_run <= simulator.now
       => simulator.anomaly_next_run < simulator.publish_next_run

\* The job of line 417: publish_sensor_data, then the job is due again after
\* SIMULATION_INTERVAL seconds.
RunPublishJob ==
  /\ simulator.pc = "loop"
  /\ PublishJobDue
  /\ simulator' = [ publish_sensor_data(simulator) EXCEPT
                      !.publish_next_run = simulator.now + simulator.SIMULATION_INTERVAL ]
  /\ UNCHANGED << service_vars, conversion, ingest, ack >>

\* The job of line 420: `random.random() < 0.1 and start_anomaly()`.
RunAnomalyJob ==
  /\ simulator.pc = "loop"
  /\ AnomalyJobDue
  /\ \E hit \in BOOLEAN, i \in 1..Len(PIPELINE_SEGMENTS), duration \in AnomalyDurations :
       simulator' =
         [ (IF hit THEN start_anomaly(simulator, PIPELINE_SEGMENTS[i], duration)
            ELSE simulator)
           EXCEPT !.hit = hit,
                  !.anomaly_next_run = simulator.now + AnomalyJobSeconds ]
  /\ UNCHANGED << service_vars, conversion, ingest, ack >>

\* Line 428: time.sleep(1), when no job is due.
SleepOneSecond ==
  /\ simulator.pc = "loop"
  /\ simulator.publish_next_run > simulator.now
  /\ simulator.anomaly_next_run > simulator.now
  /\ simulator.now < MaxSimTime
  /\ simulator' = [ simulator EXCEPT !.now = @ + 1 ]
  /\ UNCHANGED << service_vars, conversion, ingest, ack >>

NextSim == InitialPublish \/ RunPublishJob \/ RunAnomalyJob \/ SleepOneSecond

SimSpec == InitSim /\ [][NextSim]_vars

\* The main loop runs until the process is stopped: `while running` with
\* running true, one thread.
SimFairSpec == SimSpec /\ WF_vars(NextSim)

\* ----------------------------------------- generate_sensor_value on its own
\* Seconds between anomaly_start_time and the timestamp of a call.
ElapsedSeconds == {0, 30, 60, 150, 300, 400}

\* The globals a call may find: no anomaly yet, an anomaly on some sensor, or
\* an anomaly that ended (start time and duration stay as they were).
GlobalsOfCall ==
  { [anomaly_mode |-> FALSE, anomaly_sensor |-> None, anomaly_duration |-> 0] }
  \cup { [anomaly_mode |-> TRUE, anomaly_sensor |-> PIPELINE_SEGMENTS[i].id,
          anomaly_start_time |-> AnomalyJobSeconds, anomaly_duration |-> d] :
           i \in 1..Len(PIPELINE_SEGMENTS), d \in AnomalyDurations }
  \cup { [anomaly_mode |-> FALSE, anomaly_sensor |-> None,
          anomaly_start_time |-> AnomalyJobSeconds, anomaly_duration |-> d] :
           d \in AnomalyDurations }

InitGen ==
  /\ ServiceIdle
  /\ conversion = NoConversion
  /\ ingest = IngestStart
  /\ ack = NoRequests
  /\ \E g \in GlobalsOfCall, i \in 1..Len(PIPELINE_SEGMENTS), e \in ElapsedSeconds,
        base_draw \in 0..Steps, noise_draw \in 0..Steps, above_half \in BOOLEAN :
       simulator =
         SetFields(SetFields(NotStarted, g),
                   [ pc |-> "call", now |-> AnomalyJobSeconds + e,
                     sensor |-> PIPELINE_SEGMENTS[i],
                     base_draw |-> base_draw, noise_draw |-> noise_draw,
                     above_half |-> above_half ])

\* Line 338: data = generate_sensor_value(sensor, timestamp).
GenerateSensorValue ==
  /\ simulator.pc = "call"
  /\ simulator' =
       SetFields(simulator,
                 [ pc |-> "return",
                   data |-> generate_sensor_value(simulator, simulator.sensor, simulator.now,
                                                  simulator.base_draw, simulator.noise_draw,
                                                  simulator.above_half) ])
  /\ UNCHANGED << service_vars, conversion, ingest, ack >>

NextGen == GenerateSensorValue

GenSpec == InitGen /\ [][NextGen]_vars

\* ------------------------------------------------------------------ claims
LoopStates == {"FETCH", "ENCODE", "PREDICT", "PUBLISH", "IDLE"}

CycleSteps == {"FETCH", "ENCODE", "PREDICT", "PUBLISH"}

\* C1: once the prediction loop runs, no error of a FETCH, ENCODE, PREDICT or
\* PUBLISH step ends it: the loop's thread stays in the loop, a step that
\* logs an error that fails the cycle goes to IDLE, and the only way out of
\* IDLE is the next cycle's FETCH.
C1_ErrorsNeverEndTheLoop ==
  [][ /\ pc \in LoopStates => pc' \in LoopStates
      /\ (pc \in CycleSteps /\ Len(errors') > Len(errors)) => pc' = "IDLE"
      /\ (pc = "IDLE" /\ pc' # "IDLE") => (pc' = "FETCH" /\ errors' = << >>)
    ]_vars

\* A later cycle that failed and reached IDLE.
C1_Witness ==
  /\ pc = "IDLE"
  /\ start_time > Now0
  /\ Len(errors) > 0
  /\ predictions = << >>

\* C2: after a cycle that completes without error the sleep is
\* max(0, interval - elapsed): interval - elapsed below the interval, 0 from
\* the interval on, never negative.
C2_SleepAfterCleanCycle ==
  (pc = "IDLE" /\ errors = << >>) =>
    /\ elapsed_time = clock - start_time
    /\ elapsed_time < PREDICTION_INTERVAL_SECONDS
         => sleep_time = PREDICTION_INTERVAL_SECONDS - elapsed_time
    /\ elapsed_time >= PREDICTION_INTERVAL_SECONDS => sleep_time = 0
    /\ sleep_time >= 0

\* A clean cycle that overran the interval and sleeps 0.
C2_Witness ==
  /\ pc = "IDLE"
  /\ errors = << >>
  /\ elapsed_time > PREDICTION_INTERVAL_SECONDS
  /\ sleep_time = 0

FailedBeforePublish ==
  /\ pc = "IDLE"
  /\ Len(errors) > 0
  /\ errors[1] \in { "Failed to get prediction data",
                     "Failed to process prediction data",
                     "Unexpected error in prediction loop" }

\* C4 as stated: every cycle in which FETCH, ENCODE, PREDICT or PUBLISH
\* raises or reports an error sleeps the full configured interval.
C4_AnyErrorSleepsFullInterval ==
  (pc = "IDLE" /\ Len(errors) > 0) => sleep_time = PREDICTION_INTERVAL_SECONDS

\* C4 as amended: a cycle that fails in FETCH, ENCODE or PREDICT sleeps the
\* full configured interval, whatever time it took; a cycle that reached
\* PUBLISH sleeps max(0, interval - elapsed), also when publishing failed.
C4_FailureBeforePublishSleepsFullInterval ==
  /\ FailedBeforePublish => sleep_time = PREDICTION_INTERVAL_SECONDS
  /\ (pc = "IDLE" /\ ~FailedBeforePublish) =>
       sleep_time = Max(0, PREDICTION_INTERVAL_SECONDS - (clock - start_time))

\* A cycle that failed in PREDICT after some time and sleeps the interval.
C4_Witness ==
  /\ FailedBeforePublish
  /\ clock - start_time > 0
  /\ sleep_time = PREDICTION_INTERVAL_SECONDS

\* The sensors of a raw frame, in row order.
BatchSensors(df) == [i \in 1..Len(df.rows) |-> df.rows[i]["sensor_id"]]

\* A sensor has three prior points when its most recent reading of the
\* lookback window that starts at time t has three readings before it.
HasThreePrior(s, t) ==
  Cardinality({ i \in 1..Len(sensor_data[s]) :
                  sensor_data[s][i].timestamp >= t - LookbackSeconds }) >= 4

SensorsWithThreePrior(t) == SelectSeq(SENSORS_TO_PREDICT, LAMBDA s : HasThreePrior(s, t))

CleanCycle == pc = "IDLE" /\ errors = << >>

\* C3: every cycle considers all configured sensors; when some have three
\* prior points the fetch does not fail, the batch holds exactly those sensors,
\* and a cycle that completes without error publishes for exactly them.
C3_LackingSensorsAreOmitted ==
  /\ pc = "FETCH" =>
       \A result \in FetchLatest(sensor_data, SENSORS_TO_PREDICT, clock) :
         IF SensorsWithThreePrior(clock) = << >> THEN result.isNone
         ELSE ~result.isNone /\ BatchSensors(result) = SensorsWithThreePrior(clock)
  /\ pc \in {"ENCODE", "PREDICT", "PUBLISH"} =>
       BatchSensors(prediction_data) = SensorsWithThreePrior(start_time)
  /\ CleanCycle =>
       [i \in 1..Len(publish_calls) |-> publish_calls[i].payload.sensor_id]
         = BatchSensors(prediction_data)

\* A second cycle publishes for a sensor that the first cycle omitted (it had
\* three readings in the window then and got its fourth after the first
\* cycle) and omits another sensor.
C3_Witness ==
  /\ CleanCycle
  /\ start_time > Now0
  /\ \E s \in Vocabulary :
       /\ \E i \in 1..Len(publish_calls) : publish_calls[i].payload.sensor_id = s
       /\ Len(sensor_data[s]) = 5
       /\ sensor_data[s][1].timestamp < Now0 - LookbackSeconds
       /\ sensor_data[s][5].timestamp > Now0
  /\ \E s \in Vocabulary :
       \A i \in 1..Len(publish_calls) : publish_calls[i].payload.sensor_id # s

\* The frozen training schema: the recorded feature columns without the label.
FrozenSchema == SelectSeq(feature_columns, LAMBDA c : c # "value")

SchemaMismatch ==
  /\ ~processed_prediction_data.isNone
  /\ processed_prediction_data.columns # FrozenSchema

\* C5 as stated: a cycle whose encoded batch has columns that differ in name
\* or order from the frozen training schema is aborted: it does not go on to
\* PREDICT's result or PUBLISH and publishes nothing.
C5_SchemaMismatchAbortsCycle ==
  SchemaMismatch => (predictions = << >> /\ publish_calls = << >> /\ pc # "PUBLISH")

\* C6 as stated: in a publish step every sensor of the batch gets its publish
\* attempt, whatever happened to the attempts before it.
C6_EverySensorGetsItsAttempt ==
  (pc = "IDLE" /\ predictions # << >>) => Len(publish_calls) = Len(predictions)

OneHotRows(raw, enc) ==
  /\ Len(enc.rows) = Len(raw.rows)
  /\ \A i \in 1..Len(raw.rows) :
       raw.rows[i]["sensor_id"] \in Vocabulary =>
         \A k \in 1..Len(SENSORS_TO_PREDICT) :
           enc.rows[i][SensorColumn(SENSORS_TO_PREDICT[k])]
             = IF SENSORS_TO_PREDICT[k] = raw.rows[i]["sensor_id"] THEN 1 ELSE 0

\* C8: in the training frame and in every inference batch, each encoded row
\* has exactly one indicator at 1, the one of the row's sensor.
C8_ExactlyOneIndicator ==
  /\ ~processed_df.isNone => OneHotRows(training_df, processed_df)
  /\ ~processed_prediction_data.isNone =>
       OneHotRows(prediction_data, processed_prediction_data)

\* A training frame and an inference batch that both mix two sensors.
C8_Witness ==
  /\ ~processed_df.isNone
  /\ ~processed_prediction_data.isNone
  /\ Cardinality(Range(BatchSensors(training_df))) >= 2
  /\ Cardinality(Range(BatchSensors(prediction_data))) >= 2

\* The columns the claim lists: 7 calendar columns, 5 lag and rate columns,
\* one indicator per vocabulary sensor in vocabulary order.
InferenceColumns ==
  << "year", "month", "day", "hour", "minute", "second", "dayofweek",
     "prev_value_1", "prev_value_2", "prev_value_3",
     "rate_of_change_1", "rate_of_change_2" >>
    \o [k \in 1..Len(SENSORS_TO_PREDICT) |-> "sensor_id_" \o SENSORS_TO_PREDICT[k]]

\* C9: the training columns are the label followed by the inference columns
\* in the same order, whatever sensors occur; inference has no label column.
C9_TrainingColumnsAreLabelPlusInference ==
  /\ ~processed_df.isNone => processed_df.columns = << "value" >> \o InferenceColumns
  /\ trained_model = "automl" => feature_columns = << "value" >> \o InferenceColumns
  /\ ~processed_prediction_data.isNone =>
       /\ processed_prediction_data.columns = InferenceColumns
       /\ "value" \notin Range(processed_prediction_data.columns)

\* Training saw every vocabulary sensor and the batch holds only the last one.
C9_Witness ==
  /\ trained_model = "automl"
  /\ ~processed_prediction_data.isNone
  /\ Range(BatchSensors(training_df)) = Vocabulary
  /\ Range(BatchSensors(prediction_data)) = {SENSORS_TO_PREDICT[Len(SENSORS_TO_PREDICT)]}

LagFields(row) == [f \in Range(historical_features) |-> row[f]]

\* The training vector of the latest stored reading of sensor s.
TrainingVector(s) ==
  LET raw == FetchTrainingData(sensor_data, SENSORS_TO_PREDICT)
      enc == ProcessData(raw, TRUE)
      h == sensor_data[s]
      i == CHOOSE j \in 1..Len(raw.rows) :
             /\ raw.rows[j]["sensor_id"] = s
             /\ raw.rows[j]["timestamp"] = h[Len(h)].timestamp
             /\ raw.rows[j]["value"] = h[Len(h)].value
  IN  enc.rows[i]

\* The inference vectors built for sensor s from the readings that precede
\* its latest stored reading, at the time of that reading.
InferenceVectors(s) ==
  LET h == sensor_data[s]
      before == [sensor_data EXCEPT ![s] = SubSeq(h, 1, Len(h) - 1)]
  IN  { ProcessData(f, TRUE).rows[1] :
          f \in FetchLatest(before, << s >>, h[Len(h)].timestamp) \ {NoneFrame} }

\* C10 as stated: for a reading with a given prior history, the lag and rate
\* fields of its training vector equal those of the inference vector built
\* from that history.
C10_TrainingLagsEqualInferenceLags ==
  \A s \in Vocabulary :
    Len(sensor_data[s]) >= 5 =>
      \A v \in InferenceVectors(s) : LagFields(TrainingVector(s)) = LagFields(v)

\* The encoded row enc is the encoding of the raw row of sensor s: the lag
\* and rate fields of the raw row, the calendar fields of its timestamp and
\* the indicator of s.
EncodingOf(enc, raw, s) ==
  /\ LagFields(enc) = LagFields(raw)
  /\ enc["hour"] = CalHour(raw["timestamp"])
  /\ enc["minute"] = CalMinute(raw["timestamp"])
  /\ enc["second"] = CalSecond(raw["timestamp"])
  /\ enc[SensorColumn(s)] = 1

\* The raw row carries the latest reading of sensor s at the cycle's start.
LatestReadingOf(raw, s) ==
  LET h == sensor_data[s]
  IN  \E k \in 1..Len(h) :
        /\ h[k].timestamp = raw["timestamp"]
        /\ h[k].value = raw["prev_value_1"]
        /\ \A j \in 1..Len(h) : h[j].timestamp <= h[k].timestamp

\* C11: the i-th published record carries the i-th batch row's sensor and the
\* i-th prediction, and that prediction is the model's output for the row
\* encoded from that sensor's own readings.
C11_PublishedValueIsOwnPrediction ==
  pc = "IDLE" =>
    \A i \in 1..Len(publish_calls) :
      /\ publish_calls[i].payload.sensor_id = prediction_data.rows[i]["sensor_id"]
      /\ LatestReadingOf(prediction_data.rows[i], publish_calls[i].payload.sensor_id)
      /\ EncodingOf(processed_prediction_data.rows[i], prediction_data.rows[i],
                    publish_calls[i].payload.sensor_id)
      /\ publish_calls[i].payload.value = predictions[i]
      /\ publish_calls[i].payload.value = Estimate(processed_prediction_data.rows[i])

\* A cycle published for two sensors, with different values.
C11_Witness ==
  /\ pc = "IDLE"
  /\ Len(publish_calls) = 2
  /\ publish_calls[1].payload.sensor_id # publish_calls[2].payload.sensor_id
  /\ publish_calls[1].payload.value # publish_calls[2].payload.value

\* The number of publish calls of this cycle that carry sensor s.
PublishCount(s) ==
  Cardinality({ i \in 1..Len(publish_calls) : publish_calls[i].payload.sensor_id = s })

ReachedPublish == pc = "IDLE" /\ predictions # << >>

\* C12 as stated: in a cycle that reached PUBLISH every sensor of the batch
\* got exactly one publish call and every other sensor none.
C12_OnePublishPerSurvivingSensor ==
  ReachedPublish =>
    \A s \in Vocabulary :
      PublishCount(s) = IF s \in Range(BatchSensors(prediction_data)) THEN 1 ELSE 0

\* C13: once the prediction loop runs, no step of any cycle, failed or not,
\* changes the model handle or the recorded feature columns.
C13_ModelAndSchemaFrozenInLoop ==
  [][ /\ pc \in LoopStates => trained_model' = trained_model
      /\ pc \in LoopStates => feature_columns' = feature_columns
    ]_vars

\* A second cycle runs with the trained model and its schema after a first
\* cycle that failed for lack of usable rows.
C13_Witness ==
  /\ pc = "PUBLISH"
  /\ start_time > Now0
  /\ trained_model = "automl"
  /\ feature_columns = processed_df.columns
  /\ \A s \in Vocabulary :
       \/ Len(sensor_data[s]) = 0
       \/ sensor_data[s][1].timestamp < Now0 - LookbackSeconds

\* Startup ended without a model.
NoModelAfterStartup == pc # "main" /\ trained_model = "None"

\* C14: the loop never runs without a model.  When no training data was
\* fetched, the data were empty, encoding them failed or the estimator
\* failed, there is no model; and without a model the service has exited
\* and has neither run a cycle nor published.
C14_NoLoopWithoutModel ==
  /\ pc \in LoopStates => trained_model # "None"
  /\ (pc # "main" /\ trained_model # "loaded"
        /\ (training_df.isNone \/ Len(training_df.rows) = 0 \/ processed_df.isNone))
       => trained_model = "None"
  /\ NoModelAfterStartup =>
       /\ pc = "exited"
       /\ start_time = 0
       /\ prediction_data = NoneFrame
       /\ predictions = << >>
       /\ publish_calls = << >>

\* The estimator failed on training data that were fetched and encoded.
C14_Witness ==
  /\ NoModelAfterStartup
  /\ pc = "exited"
  /\ ~training_df.isNone
  /\ ~processed_df.isNone

\* A model id is configured and the model in use is not the stored one:
\* loading it failed and main went on to train.
LoadFailed == H2O_MODEL_ID # "" /\ pc # "main" /\ trained_model # "loaded"

\* C15: when loading the configured model failed, nothing of it is kept: a
\* model in use is the freshly trained one, trained on the fetched training
\* data, and the feature columns are the ones recorded from that training;
\* the prediction loop runs with exactly these.
C15_LoadFailureFallsBackToTraining ==
  /\ (LoadFailed /\ trained_model # "None") =>
       /\ trained_model = "automl"
       /\ ~training_df.isNone /\ Len(training_df.rows) > 0
       /\ ~processed_df.isNone /\ Len(processed_df.rows) = Len(training_df.rows)
       /\ \A i \in 1..Len(training_df.rows) :
            processed_df.rows[i]["value"] = training_df.rows[i]["value"]
       /\ feature_columns = processed_df.columns
       /\ feature_columns \notin VarimpLists
  /\ (LoadFailed /\ pc \in LoopStates) => trained_model = "automl"

\* After a failed load the loop published with the freshly trained model.
C15_Witness ==
  /\ LoadFailed
  /\ pc = "IDLE"
  /\ trained_model = "automl"
  /\ publish_calls # << >>

\* The readings stored for sensor s, as (timestamp, value) pairs.
ReadingsOf(s) ==
  { << sensor_data[s][i].timestamp, sensor_data[s][i].value >> : i \in 1..Len(sensor_data[s]) }

\* C16: every published sensor_id is in the vocabulary, and every row of the
\* training frame and of an inference batch is a vocabulary sensor's row
\* whose values are values of that sensor's own readings (the sensor
\* outside the vocabulary has readings with other values).
C16_OnlyVocabularySensors ==
  /\ \A i \in 1..Len(publish_calls) : publish_calls[i].payload.sensor_id \in Vocabulary
  /\ ~training_df.isNone =>
       \A i \in 1..Len(training_df.rows) :
         LET row == training_df.rows[i]
         IN  /\ row["sensor_id"] \in Vocabulary
             /\ << row["timestamp"], row["value"] >> \in ReadingsOf(row["sensor_id"])
  /\ ~prediction_data.isNone =>
       \A i \in 1..Len(prediction_data.rows) :
         LET row == prediction_data.rows[i]
         IN  /\ row["sensor_id"] \in Vocabulary
             /\ \A f \in {"prev_value_1", "prev_value_2", "prev_value_3"} :
                  \E k \in 1..Len(sensor_data[row["sensor_id"]]) :
                    sensor_data[row["sensor_id"]][k].value = row[f]

\* The historian holds recent readings of a sensor outside the vocabulary
\* while the service trains and publishes.
C16_Witness ==
  /\ pc = "IDLE"
  /\ publish_calls # << >>
  /\ ~training_df.isNone
  /\ \E i \in 1..Len(sensor_data[RogueSensor]) :
       sensor_data[RogueSensor][i].timestamp >= start_time - LookbackSeconds

\* The locals of a cycle hold nothing of an earlier cycle.
NoResidue ==
  /\ prediction_data = NoneFrame
  /\ processed_prediction_data = NoneFrame
  /\ predictions = << >>
  /\ publish_calls = << >>
  /\ errors = << >>
  /\ elapsed_time = 0
  /\ sleep_time = -1

\* No sensor had three prior points at the service's first fetch.
FirstCycleHadNoRows ==
  \A s \in Vocabulary :
    Cardinality({ i \in 1..Len(sensor_data[s]) :
                    /\ sensor_data[s][i].timestamp >= Now0 - LookbackSeconds
                    /\ sensor_data[s][i].timestamp <= Now0 }) < 4

\* C17: every cycle, whatever the cycles before it did, starts with nothing
\* left of them, and a cycle in which nothing fails publishes once, with
\* success, for every sensor that has three prior points at its start.
C17_DegradationIsTransient ==
  /\ pc = "FETCH" => NoResidue
  /\ CleanCycle =>
       \A s \in Vocabulary :
         HasThreePrior(s, start_time) =>
           \E i \in 1..Len(publish_calls) :
             /\ publish_calls[i].payload.sensor_id = s
             /\ publish_calls[i].result = "ok"

\* The first cycle failed for lack of usable rows; the second cycle is clean
\* and publishes.
C17_Witness ==
  /\ CleanCycle
  /\ start_time > Now0
  /\ FirstCycleHadNoRows
  /\ publish_calls # << >>

SupportedPairs ==
  { << "°C", "°F" >>, << "°F", "°C" >>, << "bar", "PSI" >>, << "PSI", "bar" >>,
    << "m3/h", "MCF/day" >>, << "MCF/day", "m3/h" >> }

ConversionPair == << conversion.from_unit, conversion.to_unit >>

\* C19 (ConvertSpec): convert_value returns the value unchanged when the two
\* units are equal, whatever the unit; for two different units it raises
\* ValueError exactly when the pair is not one of the six supported ones.
C19_SameUnitIdentityElseValueError ==
  conversion.pc \in {"converted", "raised", "restored"} =>
    IF conversion.from_unit = conversion.to_unit
    THEN conversion.converted = Returned(RatOfInt(conversion.value))
    ELSE IF ConversionPair \in SupportedPairs
    THEN conversion.converted.raised = ""
    ELSE conversion.converted.raised = "ValueError" /\ conversion.pc = "raised"

\* A value came back unchanged for a unit the module does not know.
C19_Witness ==
  /\ conversion.pc = "converted"
  /\ conversion.from_unit = "K"
  /\ conversion.to_unit = "K"
  /\ conversion.value # 0

\* C20 as stated (ConvertSpec): for a supported pair, the value converted
\* and converted back lies within two decimal places (less than 0.005) of
\* the original value.
C20_RoundTripWithinTwoDecimals ==
  (conversion.pc = "restored" /\ ConversionPair \in SupportedPairs) =>
    /\ conversion.restored.raised = ""
    /\ RatWithin(conversion.restored.value, conversion.value, 200)

\* convert_value has an entry for the ordered pair of units.
Supports(from_unit, to_unit) == << from_unit, to_unit >> \in ConversionKeys

\* Units with a counterpart in the other system.
UnitsWithCounterpart == { "°C", "°F", "bar", "PSI", "m3/h", "MCF/day" }

\* C21 (ConvertSpec): get_equivalent_unit(u, t) returns None or a unit v of
\* system t that convert_value can convert to from u and back; it returns
\* None for a unit without a counterpart (an unknown unit, mm/s) and for a
\* target system that is the unit's own.
C21_EquivalentIsConvertibleUnitOfTarget ==
  conversion.pc = "equivalent" =>
    LET u == conversion.from_unit
        t == conversion.target_system
        v == conversion.equivalent_unit
    IN  /\ v # None =>
              /\ get_unit_system(v) = t
              /\ Supports(u, v)
              /\ Supports(v, u)
        /\ u \notin UnitsWithCounterpart => v = None
        /\ get_unit_system(u) = t => v = None

\* A metric unit was given its imperial counterpart.
C21_Witness ==
  /\ conversion.pc = "equivalent"
  /\ conversion.from_unit = "bar"
  /\ conversion.target_system = "imperial"
  /\ conversion.equivalent_unit = "PSI"

\* main() has called prediction_loop() with a model and a recorded schema.
StartupDoneWithModelAndSchema ==
  /\ pc = "prediction_loop"
  /\ trained_model \in {"automl", "loaded"}
  /\ feature_columns # << >>

C23_StepsInOrderOneCycleAtATime ==
  [][ /\ (pc' = "ENCODE" /\ pc # "ENCODE") =>
             pc = "FETCH" /\ ~prediction_data'.isNone
      /\ (pc' = "PREDICT" /\ pc # "PREDICT") =>
             pc = "ENCODE" /\ ~processed_prediction_data'.isNone
      /\ (pc' = "PUBLISH" /\ pc # "PUBLISH") =>
             /\ pc = "PREDICT"
             /\ Len(predictions') = Len(processed_prediction_data.rows)
             /\ processed_prediction_data' = processed_prediction_data
      /\ (pc' = "IDLE" /\ pc # "IDLE") => pc \in CycleSteps
      /\ (pc' = "FETCH" /\ pc \in LoopStates /\ pc # "FETCH") =>
             /\ pc = "IDLE"
             /\ sleep_time >= 0
             /\ clock' = clock + sleep_time
    ]_vars

\* A second cycle went through all its steps and published.
C23_Witness ==
  /\ pc = "IDLE"
  /\ start_time > Now0
  /\ Len(predictions) > 0
  /\ Len(publish_calls) = Len(predictions)

\* The positions in the stored history of sensor s (kept in timestamp
\* order) of a reading that the i-th vector of the batch may encode: one
\* with the timestamp of the i-th fetched row and three readings before it.
EncodedReadingAt(i) ==
  LET s == prediction_data.rows[i]["sensor_id"]
      h == sensor_data[s]
  IN  { k \in 4..Len(h) : h[k].timestamp = prediction_data.rows[i]["timestamp"] }

\* C24 as stated: in every encoded vector, prev_value_1, prev_value_2 and
\* prev_value_3 are the values of the three readings of the same sensor
\* that come just before the reading being encoded, the one whose timestamp
\* gives the vector its calendar fields.
C24_LagsPrecedeTheEncodedReading ==
  pc \in {"PREDICT", "PUBLISH"} =>
    \A i \in 1..Len(processed_prediction_data.rows) :
      LET enc == processed_prediction_data.rows[i]
          h == sensor_data[prediction_data.rows[i]["sensor_id"]]
      IN  /\ enc["hour"] = CalHour(prediction_data.rows[i]["timestamp"])
          /\ enc["minute"] = CalMinute(prediction_data.rows[i]["timestamp"])
          /\ enc["second"] = CalSecond(prediction_data.rows[i]["timestamp"])
          /\ \E k \in EncodedReadingAt(i) :
                /\ enc["prev_value_1"] = h[k - 1].value
                /\ enc["prev_value_2"] = h[k - 2].value
                /\ enc["prev_value_3"] = h[k - 3].value

\* (value - prev) / time_delta, and 0 when the time difference is not positive.
RateOver(value, prev, time_delta) ==
  IF time_delta > 0 THEN Frac(value - prev, time_delta) ELSE ZeroRate

\* C25 as stated: in every encoded vector, rate_of_change_k (k = 1, 2) is
\* the value of the reading being encoded minus the vector's own
\* prev_value_k, divided by the time between that reading and its k-th
\* predecessor, and 0 when that time is not positive.
C25_RatesFromOwnLagFields ==
  pc \in {"PREDICT", "PUBLISH"} =>
    \A i \in 1..Len(processed_prediction_data.rows) :
      LET enc == processed_prediction_data.rows[i]
          h == sensor_data[prediction_data.rows[i]["sensor_id"]]
      IN  \E k \in EncodedReadingAt(i) :
            /\ enc["rate_of_change_1"] =
                  RateOver(h[k].value, enc["prev_value_1"],
                           h[k].timestamp - h[k - 1].timestamp)
            /\ enc["rate_of_change_2"] =
                  RateOver(h[k].value, enc["prev_value_2"],
                           h[k].timestamp - h[k - 2].timestamp)

\* The rows of the cycle's batch that belong to sensor s.
BatchRowsOf(s) ==
  { i \in 1..Len(prediction_data.rows) : prediction_data.rows[i]["sensor_id"] = s }

\* The readings of sensor s with the greatest timestamp.
MostRecentReadings(s) ==
  { r \in Range(sensor_data[s]) :
      \A q \in Range(sensor_data[s]) : q.timestamp <= r.timestamp }

\* C26: the batch of a cycle has no row of a configured sensor whose window
\* holds fewer than three readings before its most recent one, and exactly
\* one row of every other configured sensor, carrying the timestamp and the
\* value of that sensor's most recent reading.
C26_DroppedIffFewerThanThreePrior ==
  pc \in {"ENCODE", "PREDICT", "PUBLISH"} =>
    \A s \in Range(SENSORS_TO_PREDICT) :
      IF HasThreePrior(s, start_time)
      THEN /\ Cardinality(BatchRowsOf(s)) = 1
           /\ \A i \in BatchRowsOf(s) :
                \E r \in MostRecentReadings(s) :
                  /\ prediction_data.rows[i]["timestamp"] = r.timestamp
                  /\ prediction_data.rows[i]["prev_value_1"] = r.value
      ELSE BatchRowsOf(s) = {}

\* A batch with a row of a sensor that has five readings in the window and
\* none of a sensor that has only three.
C26_Witness ==
  /\ pc = "ENCODE"
  /\ \E s \in Range(SENSORS_TO_PREDICT) :
       /\ BatchRowsOf(s) # {}
       /\ Cardinality(WindowIdx(sensor_data[s], start_time)) = 5
  /\ \E s \in Range(SENSORS_TO_PREDICT) :
       /\ BatchRowsOf(s) = {}
       /\ Cardinality(WindowIdx(sensor_data[s], start_time)) = 3

\* The cycle's FETCH and ENCODE succeeded and its PREDICT step is over.
PredictStepOver ==
  pc \in {"PUBLISH", "IDLE"} /\ ~processed_prediction_data.isNone

\* model.predict was called at most once in the cycle, with the whole
\* encoded batch.
AtMostOnePredictOverWholeBatch ==
  /\ Len(predict_calls) <= 1
  /\ \A i \in 1..Len(predict_calls) : predict_calls[i] = processed_prediction_data

\* C27 as stated: model.predict is called at most once per cycle, with the
\* whole batch, and exactly once in every cycle whose FETCH and ENCODE
\* succeeded.
C27_PredictOnceWheneverEncoded ==
  /\ AtMostOnePredictOverWholeBatch
  /\ PredictStepOver => Len(predict_calls) = 1

\* C27 as the code has it: model.predict is called at most once per cycle,
\* with the whole batch; in a cycle whose FETCH and ENCODE succeeded it is
\* called exactly once when the batch was converted to an H2OFrame, and not
\* at all when that conversion raised.
C27_PredictOnceWheneverConverted ==
  /\ AtMostOnePredictOverWholeBatch
  /\ PredictStepOver =>
       Len(predict_calls) = (IF h2o_frame.isNone THEN 0 ELSE 1)
  /\ pc \in {"FETCH", "ENCODE", "PREDICT"} => predict_calls = << >>

\* model.predict was called once with a batch of two sensors.
C27_Witness ==
  /\ pc = "PUBLISH"
  /\ predict_calls = << processed_prediction_data >>
  /\ Len(processed_prediction_data.rows) = 2
  /\ Len(predictions) = 2

\* C28: every publish call of a cycle goes to the topic
\* ai_scada/predictions/<sensor_id> of the sensor named in its own payload,
\* and its payload has the type "prediction".
C28_TopicNamesPayloadSensor ==
  \A i \in 1..Len(publish_calls) :
    /\ publish_calls[i].topic =
         "ai_scada/predictions/" \o publish_calls[i].payload.sensor_id
    /\ publish_calls[i].payload.type = "prediction"

\* Two messages of one cycle went to the topics of two different sensors.
C28_Witness ==
  /\ Len(publish_calls) = 2
  /\ publish_calls[1].topic = "ai_scada/predictions/pressure-1"
  /\ publish_calls[2].topic = "ai_scada/predictions/temp-1"
  /\ publish_calls[2].result = "ok"

\* The confirmations the handler has published.
ConfirmationsPublished ==
  SelectSeq(ingest.published, LAMBDA m : "status" \in DOMAIN m.payload)

\* C29 as stated (IngestSpec): a reading is stored once, and a confirmation
\* that comes back through the service's own subscription creates no
\* record and no confirmation: there are never more sensor_data records, nor
\* more confirmations, than readings that publishers have sent.
C29_EachReadingStoredOnce ==
  /\ Len(ingest.sensor_data) <= ingest.sent
  /\ Len(ConfirmationsPublished) <= ingest.sent

\* C30 as stated (AckSpec): under any interleaving of acknowledge requests,
\* the row of an acknowledged alarm never changes again: acknowledged stays
\* true, and acknowledged_by and acknowledged_at keep their values.
C30_AcknowledgedAtMostOnce ==
  [][ \A id \in DOMAIN ack.alarms :
        ack.alarms[id].acknowledged => ack'.alarms[id] = ack.alarms[id]
    ]_vars

\* The step stores a sensor_data record.
StoresRecord == Len(ingest'.sensor_data) = Len(ingest.sensor_data) + 1

\* The record the step stores and the sensor row it belongs to.
StoredRecord == ingest'.sensor_data[Len(ingest'.sensor_data)]

StoredSensor == ingest'.sensors[StoredRecord.sensor_id]

\* The alarms the step creates.
CreatedAlarms ==
  SubSeq(ingest'.alarms, Len(ingest.alarms) + 1, Len(ingest'.alarms))

BelowMinimum ==
  "min_value" \in DOMAIN StoredSensor /\ StoredRecord.value < StoredSensor.min_value

AboveMaximum ==
  "max_value" \in DOMAIN StoredSensor /\ StoredRecord.value > StoredSensor.max_value

\* C31 (IngestSpec): alarms are created only by a step that stores a
\* reading; that step creates a "below minimum" alarm exactly when the
\* sensor has a min_value and the value is less than it, an "above maximum"
\* alarm exactly when the sensor has a max_value and the value is greater
\* than it, and no other alarm; all of them name the reading's sensor.
C31_AlarmIffThresholdViolated ==
  [][ /\ ingest'.alarms # ingest.alarms => StoresRecord
      /\ StoresRecord =>
           /\ Len(CreatedAlarms) = (IF BelowMinimum THEN 1 ELSE 0)
                                    + (IF AboveMaximum THEN 1 ELSE 0)
           /\ BelowMinimum <=>
                \E i \in 1..Len(CreatedAlarms) : CreatedAlarms[i].message = "below minimum"
           /\ AboveMaximum <=>
                \E i \in 1..Len(CreatedAlarms) : CreatedAlarms[i].message = "above maximum"
           /\ \A i \in 1..Len(CreatedAlarms) :
                CreatedAlarms[i].sensor_id = StoredRecord.sensor_id
    ]_vars

\* A reading of temp-1 on its upper threshold was stored without an alarm,
\* and a reading of flow-1 outside both of its thresholds raised two.
C31_Witness ==
  /\ \E i \in 1..Len(ingest.sensor_data) :
       /\ ingest.sensor_data[i].sensor_id = "temp-1"
       /\ ingest.sensor_data[i].value = ingest.sensors["temp-1"].max_value
  /\ Len(ingest.alarms) = 2
  /\ \A i \in 1..Len(ingest.alarms) : ingest.alarms[i].sensor_id = "flow-1"

\* The step handles the oldest message of the inbox.
HandlesMessage == ingest.inbox # << >> /\ ingest'.handled = ingest.handled + 1

\* The handled message's topic begins with ai_scada/data/<sensor_id>.
TopicOfSensorData ==
  LET topic == Head(ingest.inbox).topic
  IN  Len(topic) >= 3 /\ topic[1] = "ai_scada" /\ topic[2] = "data"

\* The handled message's payload is a JSON object with a value.
PayloadWithValue ==
  LET payload == Head(ingest.inbox).payload
  IN  "syntax_error" \notin DOMAIN payload /\ "value" \in DOMAIN payload

\* C32 (IngestSpec): handling a message whose topic does not begin with
\* ai_scada/data/<sensor_id>, whose payload is no JSON or whose payload has
\* no value leaves the sensors, sensor_data and alarms tables as they were
\* and publishes nothing; a message with such a topic and the value 0 is
\* stored with that value.
C32_RejectedMessageChangesNothing ==
  [][ /\ (HandlesMessage /\ ~(TopicOfSensorData /\ PayloadWithValue)) =>
           /\ ingest'.sensors = ingest.sensors
           /\ ingest'.sensor_data = ingest.sensor_data
           /\ ingest'.alarms = ingest.alarms
           /\ ingest'.published = ingest.published
           /\ ingest'.inbox = Tail(ingest.inbox)
      /\ (HandlesMessage /\ TopicOfSensorData /\ PayloadWithValue) =>
           /\ StoresRecord
           /\ StoredRecord.value = Head(ingest.inbox).payload.value
    ]_vars

\* Two messages were handled: one changed nothing, the other stored the
\* value 0.
C32_Witness ==
  /\ ingest.sent = 2
  /\ ingest.handled = 2
  /\ Len(ingest.sensor_data) = 1
  /\ ingest.sensor_data[1].value = 0

\* C33 (IngestSpec): every 'stored' confirmation that has been published
\* names a committed sensor_data record (by its id, on the topic of the
\* record's sensor, with the record's timestamp and value), and the sensors
\* table has a row for that sensor.
C33_ConfirmationOnlyForStoredReading ==
  \A i \in 1..Len(ConfirmationsPublished) :
    LET m == ConfirmationsPublished[i]
    IN  /\ m.payload.status = "stored"
        /\ m.payload.id \in 1..Len(ingest.sensor_data)
        /\ ingest.sensor_data[m.payload.id] =
              [ id |-> m.payload.id, sensor_id |-> m.topic[3],
                timestamp |-> m.payload.timestamp, value |-> m.payload.value ]
        /\ m.topic[3] \in DOMAIN ingest.sensors

\* A confirmation was published for the first reading of a sensor that the
\* sensors table did not have at the start.
C33_Witness ==
  /\ "flow-1" \notin DOMAIN SensorsAtStart
  /\ \E i \in 1..Len(ConfirmationsPublished) :
       /\ ConfirmationsPublished[i].topic[3] = "flow-1"
       /\ ConfirmationsPublished[i].payload.id = 1

\* The step is a run of the anomaly job in which `random.random() < 0.1`
\* held, so that start_anomaly() was called.
StartAnomalyInvoked ==
  /\ simulator'.anomaly_next_run # simulator.anomaly_next_run
  /\ simulator'.hit

\* C34: in the simulator at most one anomaly is active at any time:
\* start_anomaly invoked while anomaly_mode is true leaves anomaly_sensor,
\* anomaly_start_time and anomaly_duration unchanged (and starts nothing),
\* and whenever anomaly_mode is true anomaly_sensor and anomaly_start_time
\* are set.
C34_AtMostOneAnomalyActive ==
  [][ /\ (simulator.anomaly_mode /\ StartAnomalyInvoked) =>
           /\ simulator'.anomaly_mode
           /\ simulator'.anomaly_sensor = simulator.anomaly_sensor
           /\ simulator'.anomaly_start_time = simulator.anomaly_start_time
           /\ simulator'.anomaly_duration = simulator.anomaly_duration
           /\ simulator'.started = simulator.started
      /\ simulator'.anomaly_mode =>
           /\ simulator'.anomaly_sensor # None
           /\ "anomaly_start_time" \in DOMAIN simulator' ]_vars

\* start_anomaly was called after the anomaly that is still active started.
C34_Witness ==
  /\ simulator.anomaly_mode
  /\ simulator.hit
  /\ simulator.anomaly_next_run - AnomalyJobSeconds > simulator.anomaly_start_time

\* The call of generate_sensor_value returned, and it took the anomaly
\* branch of line 277.
CallReturned == simulator.pc = "return"

CallInAnomaly ==
  /\ simulator.anomaly_mode
  /\ simulator.sensor.id = simulator.anomaly_sensor

\* C35: generate_sensor_value always returns a value within
\* [min_value, max_value] of its sensor, in normal operation and at every
\* point of an anomaly, for every sensor type.
C35_ValueWithinSensorRange ==
  CallReturned =>
    /\ simulator.data.sensor_id = simulator.sensor.id
    /\ simulator.data.value >= simulator.sensor.min_value
    /\ simulator.data.value <= simulator.sensor.max_value

\* Half way through an anomaly on its sensor the noise took the value past
\* max_value, and max_value was returned.
C35_Witness ==
  /\ CallReturned
  /\ CallInAnomaly
  /\ 2 * (simulator.now - simulator.anomaly_start_time) = simulator.anomaly_duration
  /\ simulator.noise_draw = Steps
  /\ simulator.data.value = simulator.sensor.max_value

\* The step is a run of publish_sensor_data.
PublishRun == simulator'.last_publish # simulator.last_publish

\* The time the active anomaly is due to end.
AnomalyDeadline == simulator.anomaly_start_time + simulator.anomaly_duration

\* An anomaly is active, and a publish run at or after its deadline is due
\* before the main loop stops sleeping.
AnomalyDueInTime ==
  /\ simulator.pc = "loop"
  /\ simulator.anomaly_mode
  /\ AnomalyDeadline + simulator.SIMULATION_INTERVAL <= MaxSimTime

AnomalyOver ==
  /\ ~simulator.anomaly_mode
  /\ simulator.anomaly_sensor = None

\* C36: every anomaly started in the simulator eventually ends: a
\* publish_sensor_data run before anomaly_start_time + anomaly_duration
\* leaves the anomaly active, the first run at or after that time resets
\* anomaly_mode to false and anomaly_sensor to None, and such a run comes.
C36_EveryAnomalyEnds ==
  /\ [][ /\ (PublishRun /\ simulator.anomaly_mode /\ simulator.now >= AnomalyDeadline) =>
              /\ ~simulator'.anomaly_mode
              /\ simulator'.anomaly_sensor = None
         /\ (PublishRun /\ simulator.anomaly_mode /\ simulator.now < AnomalyDeadline) =>
              /\ simulator'.anomaly_mode
              /\ simulator'.anomaly_sensor = simulator.anomaly_sensor ]_vars
  /\ AnomalyDueInTime ~> AnomalyOver

\* A second anomaly is active: the first one ended and a new one started.
C36_Witness ==
  /\ simulator.pc = "loop"
  /\ simulator.started = 2
  /\ simulator.anomaly_mode
  /\ simulator.anomaly_start_time = 2 * AnomalyJobSeconds
====
